---- MODULE Spec2Model ----
(***************************************************************************)
(* Model of the legal-eagle document pipeline                              *)
(* (src/src/documents/document.service.ts): upload-create with file-kind   *)
(* detection, text extraction, optional AI enrichment, the merge policy    *)
(* and the persistence call.                                               *)
(*                                                                         *)
(* JavaScript values are tagged records: [t |-> "undefined"],              *)
(* [t |-> "null"], [t |-> "string", v |-> <<chars>>], [t |-> "number",     *)
(* v |-> n], [t |-> "boolean", v |-> b], [t |-> "date", v |-> <<chars>>],  *)
(* [t |-> "array", v |-> <<values>>], [t |-> "object", v |-> [key |->      *)
(* value]].  A string's content is a sequence of one-character strings, so *)
(* that trim, toLowerCase, includes and extname are computed.              *)
(***************************************************************************)
EXTENDS Integers, Sequences, FiniteSets, TLC

VARIABLES store, nextId, openaiClient, openAiApiKey, req, cls, op, norm, seed,
          prismaService, enrich

vars ==
    <<store, nextId, openaiClient, openAiApiKey, req, cls, op, norm, seed, prismaService,
      enrich>>

----------------------------------------------------------------------------
(* Bounds *)

\* The autoincrement id is capped: no document gets an id above MaxDocs.
MaxDocs == 2

\* The number of create, update, delete and upload operations of a run
MaxOps == 2

\* The number of requests in the life of a document: create, lookup, delete,
\* lookup, delete
MaxRequests == 5

----------------------------------------------------------------------------
(* JavaScript values *)

Undefined == [t |-> "undefined"]
Null == [t |-> "null"]
Str(s) == [t |-> "string", v |-> s]
Num(n) == [t |-> "number", v |-> n]
Bool(b) == [t |-> "boolean", v |-> b]
DateOf(s) == [t |-> "date", v |-> s]
Arr(a) == [t |-> "array", v |-> a]
Obj(f) == [t |-> "object", v |-> f]

\* x == null || x === undefined, the test of `??` and `?.`
IsNullish(x) == x.t \in {"undefined", "null"}

\* a ?? b
Coalesce(a, b) == IF IsNullish(a) THEN b ELSE a

\* !x for the values a string-typed parameter can hold
IsFalsy(x) ==
    \/ IsNullish(x)
    \/ x.t = "string" /\ x.v = <<>>
    \/ x.t = "number" /\ x.v = 0
    \/ x.t = "boolean" /\ x.v = FALSE

\* {...a, ...b} on the key maps of two objects: b overwrites matching keys
Spread(a, b) ==
    [k \in (DOMAIN a) \cup (DOMAIN b) |-> IF k \in DOMAIN b THEN b[k] ELSE a[k]]

----------------------------------------------------------------------------
(* String primitives *)

UpperCase == <<"A", "B", "C", "D", "E", "F", "G", "H", "I", "J", "K", "L", "M",
               "N", "O", "P", "Q", "R", "S", "T", "U", "V", "W", "X", "Y", "Z">>
LowerCase == <<"a", "b", "c", "d", "e", "f", "g", "h", "i", "j", "k", "l", "m",
               "n", "o", "p", "q", "r", "s", "t", "u", "v", "w", "x", "y", "z">>

IsWhitespace(c) == c \in {" ", "\t", "\n", "\r"}

LowerChar(c) ==
    IF \E i \in DOMAIN UpperCase : UpperCase[i] = c
    THEN LowerCase[CHOOSE i \in DOMAIN UpperCase : UpperCase[i] = c]
    ELSE c

RECURSIVE ToLowerCase(_)
ToLowerCase(s) ==
    IF s = <<>> THEN <<>> ELSE <<LowerChar(Head(s))>> \o ToLowerCase(Tail(s))

RECURSIVE TrimStart(_)
TrimStart(s) ==
    IF s = <<>> THEN <<>>
    ELSE IF IsWhitespace(Head(s)) THEN TrimStart(Tail(s)) ELSE s

RECURSIVE TrimEnd(_)
TrimEnd(s) ==
    IF s = <<>> THEN <<>>
    ELSE IF IsWhitespace(s[Len(s)]) THEN TrimEnd(SubSeq(s, 1, Len(s) - 1)) ELSE s

\* String.prototype.trim
Trim(s) == TrimEnd(TrimStart(s))

\* String.prototype.includes, for a non-empty needle
Includes(s, sub) ==
    \E i \in 1..(Len(s) - Len(sub) + 1) : SubSeq(s, i, i + Len(sub) - 1) = sub

\* replace(/\s+/g, ' '): every run of whitespace becomes one space
RECURSIVE CollapseWhitespace(_)
CollapseWhitespace(s) ==
    IF s = <<>> THEN <<>>
    ELSE IF IsWhitespace(Head(s))
         THEN <<" ">> \o CollapseWhitespace(TrimStart(s))
         ELSE <<Head(s)>> \o CollapseWhitespace(Tail(s))

RECURSIVE StripTrailingSlashes(_)
StripTrailingSlashes(s) ==
    IF s = <<>> THEN <<>>
    ELSE IF s[Len(s)] = "/" THEN StripTrailingSlashes(SubSeq(s, 1, Len(s) - 1)) ELSE s

\* The part of a path after its last "/"
RECURSIVE LastSegment(_)
LastSegment(s) ==
    IF \E i \in DOMAIN s : s[i] = "/"
    THEN LastSegment(SubSeq(s, (CHOOSE i \in DOMAIN s : s[i] = "/") + 1, Len(s)))
    ELSE s

\* node:path extname (posix): from the last "." of the last path segment to its
\* end; empty when there is no ".", when the only "." is the segment's first
\* character, or when the segment is "..".
extname(path) ==
    LET base == LastSegment(StripTrailingSlashes(path))
        dots == {i \in DOMAIN base : base[i] = "."}
        lastDot == CHOOSE i \in dots : \A j \in dots : j <= i
    IN  IF dots = {} THEN <<>>
        ELSE IF lastDot = 1 THEN <<>>
        ELSE IF base = <<".", ".">> THEN <<>>
        ELSE SubSeq(base, lastDot, Len(base))

----------------------------------------------------------------------------
(* File-kind classifier *)

Pdf == <<"p", "d", "f">>
Html == <<"h", "t", "m", "l">>
DotPdf == <<".", "p", "d", "f">>
DotHtml == <<".", "h", "t", "m", "l">>
DotHtm == <<".", "h", "t", "m">>

\* detectFileKind falling back to html where it returns unknown
detectFileKind_DefaultHtml(filename, mimetype) ==
    IF filename = <<>> \/ Len(Trim(filename)) = 0
    THEN "BadRequestException"
    ELSE LET normalizedMime == IF IsNullish(mimetype) THEN <<>> ELSE ToLowerCase(mimetype.v)
             extension == ToLowerCase(extname(filename))
         IN  IF Includes(normalizedMime, Pdf) \/ extension = DotPdf
             THEN "pdf"
             ELSE "html"

\* detectFileKind testing the html indicators before the pdf ones
detectFileKind_HtmlFirst(filename, mimetype) ==
    IF filename = <<>> \/ Len(Trim(filename)) = 0
    THEN "BadRequestException"
    ELSE LET normalizedMime == IF IsNullish(mimetype) THEN <<>> ELSE ToLowerCase(mimetype.v)
             extension == ToLowerCase(extname(filename))
         IN  IF \/ Includes(normalizedMime, Html)
                \/ extension = DotHtml
                \/ extension = DotHtm
             THEN "html"
             ELSE IF Includes(normalizedMime, Pdf) \/ extension = DotPdf
                  THEN "pdf"
                  ELSE "unknown"

\* detectFileKind without its guard on a blank file name
detectFileKind_NoBlankCheck(filename, mimetype) ==
    LET normalizedMime == IF IsNullish(mimetype) THEN <<>> ELSE ToLowerCase(mimetype.v)
        extension == ToLowerCase(extname(filename))
    IN  IF Includes(normalizedMime, Pdf) \/ extension = DotPdf
        THEN "pdf"
        ELSE IF \/ Includes(normalizedMime, Html)
                \/ extension = DotHtml
                \/ extension = DotHtm
             THEN "html"
             ELSE "unknown"

\* detectFileKind: "BadRequestException" stands for the throw
detectFileKind(filename, mimetype) ==
    IF filename = <<>> \/ Len(Trim(filename)) = 0
    THEN "BadRequestException"
    ELSE LET normalizedMime == IF IsNullish(mimetype) THEN <<>> ELSE ToLowerCase(mimetype.v)
             extension == ToLowerCase(extname(filename))
         IN  IF Includes(normalizedMime, Pdf) \/ extension = DotPdf
             THEN "pdf"
             ELSE IF \/ Includes(normalizedMime, Html)
                     \/ extension = DotHtml
                     \/ extension = DotHtm
                  THEN "html"
                  ELSE "unknown"

----------------------------------------------------------------------------
(* Metadata codec: input side *)

\* The JSON texts a caller sends, each with the value JSON.parse gives for it
JsonDocuments == {
    [text |-> <<"{", "\"", "k", "\"", ":", "1", "}">>,
     value |-> Obj([k |-> Num(1)])],
    [text |-> <<"{", "\"", "r", "a", "w", "T", "e", "x", "t", "\"", ":", "\"", "u", "\"",
                ",", "\"", "k", "\"", ":", "1", "}">>,
     value |-> Obj([rawText |-> Str(<<"u">>), k |-> Num(1)])],
    [text |-> <<"[", "1", "]">>, value |-> Arr(<<Num(1)>>)],
    [text |-> <<"[", "{", "\"", "k", "e", "y", "\"", ":", "\"", "c", "\"", ",",
                "\"", "v", "a", "l", "u", "e", "\"", ":", "\"", "X", "\"", "}", "]">>,
     value |-> Arr(<<Obj([key |-> Str(<<"c">>), value |-> Str(<<"X">>)])>>)],
    [text |-> <<"0">>, value |-> Num(0)],
    [text |-> <<"n", "u", "l", "l">>, value |-> Null] }

\* Property names: the text of each name an object of the model can have
PropertyNames == {
    [name |-> "k", chars |-> <<"k">>],
    [name |-> "c", chars |-> <<"c">>],
    [name |-> "n", chars |-> <<"n">>],
    [name |-> "b", chars |-> <<"b">>],
    [name |-> "key", chars |-> <<"k", "e", "y">>],
    [name |-> "value", chars |-> <<"v", "a", "l", "u", "e">>],
    [name |-> "rawText", chars |-> <<"r", "a", "w", "T", "e", "x", "t">>],
    [name |-> "originalFileName",
     chars |-> <<"o", "r", "i", "g", "i", "n", "a", "l", "F", "i", "l", "e", "N", "a", "m", "e">>],
    [name |-> "mimeType", chars |-> <<"m", "i", "m", "e", "T", "y", "p", "e">>],
    [name |-> "aiExtraction",
     chars |-> <<"a", "i", "E", "x", "t", "r", "a", "c", "t", "i", "o", "n">>],
    [name |-> "title", chars |-> <<"t", "i", "t", "l", "e">>],
    [name |-> "date", chars |-> <<"d", "a", "t", "e">>],
    [name |-> "court", chars |-> <<"c", "o", "u", "r", "t">>],
    [name |-> "caseNumber", chars |-> <<"c", "a", "s", "e", "N", "u", "m", "b", "e", "r">>],
    [name |-> "summary", chars |-> <<"s", "u", "m", "m", "a", "r", "y">>],
    [name |-> "caseType", chars |-> <<"c", "a", "s", "e", "T", "y", "p", "e">>],
    [name |-> "area", chars |-> <<"a", "r", "e", "a">>],
    [name |-> "areaData", chars |-> <<"a", "r", "e", "a", "D", "a", "t", "a">>],
    [name |-> "metadata", chars |-> <<"m", "e", "t", "a", "d", "a", "t", "a">>] }

IsPropertyName(chars) == \E p \in PropertyNames : p.chars = chars
NameOf(chars) == (CHOOSE p \in PropertyNames : p.chars = chars).name
CharsOf(name) == (CHOOSE p \in PropertyNames : p.name = name).chars

Digits == <<"0", "1", "2", "3", "4", "5", "6", "7", "8", "9">>
IsDigit(c) == \E d \in DOMAIN Digits : Digits[d] = c
DigitValue(c) == (CHOOSE d \in DOMAIN Digits : Digits[d] = c) - 1

\* The decimal text of a natural number
RECURSIVE NumberText(_)
NumberText(n) ==
    IF n < 10 THEN <<Digits[n + 1]>> ELSE NumberText(n \div 10) \o <<Digits[(n % 10) + 1]>>

\* JSON.stringify of a string: quoted, with the quote, the backslash and the
\* control characters escaped
RECURSIVE EscapeChars(_)
EscapeChars(s) ==
    IF s = <<>> THEN <<>>
    ELSE (CASE Head(s) = "\"" -> <<"\\", "\"">>
            [] Head(s) = "\\" -> <<"\\", "\\">>
            [] Head(s) = "\n" -> <<"\\", "n">>
            [] Head(s) = "\t" -> <<"\\", "t">>
            [] Head(s) = "\r" -> <<"\\", "r">>
            [] OTHER -> <<Head(s)>>) \o EscapeChars(Tail(s))

Quote(s) == <<"\"">> \o EscapeChars(s) \o <<"\"">>

\* The property names of an object in the order JSON.stringify writes them
\* (one fixed order stands for the insertion order)
RECURSIVE NamesInOrder(_)
NamesInOrder(names) ==
    IF names = {} THEN <<>>
    ELSE LET first == CHOOSE n \in names : TRUE
         IN  <<first>> \o NamesInOrder(names \ {first})

\* JSON.stringify of a JSON value; an undefined property is left out and an
\* undefined array element is written as null
RECURSIVE JSONstringify(_)
RECURSIVE StringifyElements(_)
RECURSIVE StringifyMembers(_, _)
StringifyElements(a) ==
    IF a = <<>> THEN <<>>
    ELSE (IF Head(a).t = "undefined" THEN <<"n", "u", "l", "l">> ELSE JSONstringify(Head(a)))
         \o (IF Len(a) > 1 THEN <<",">> \o StringifyElements(Tail(a)) ELSE <<>>)

StringifyMembers(f, names) ==
    IF names = <<>> THEN <<>>
    ELSE Quote(CharsOf(Head(names))) \o <<":">> \o JSONstringify(f[Head(names)])
         \o (IF Len(names) > 1 THEN <<",">> \o StringifyMembers(f, Tail(names)) ELSE <<>>)

JSONstringify(x) ==
    CASE x.t = "null" -> <<"n", "u", "l", "l">>
      [] x.t = "boolean" -> IF x.v THEN <<"t", "r", "u", "e">> ELSE <<"f", "a", "l", "s", "e">>
      [] x.t = "number" -> NumberText(x.v)
      [] x.t = "string" -> Quote(x.v)
      [] x.t = "date" -> Quote(x.v)
      [] x.t = "array" -> <<"[">> \o StringifyElements(x.v) \o <<"]">>
      [] x.t = "object" ->
            <<"{">> \o StringifyMembers(x.v,
                        NamesInOrder({n \in DOMAIN x.v : x.v[n].t # "undefined"})) \o <<"}">>

\* JSON.parse: a recursive-descent reading of the text from position i, giving
\* the value and the position after it, or a failure (SyntaxError)
ParseFailure == [ok |-> FALSE, value |-> Undefined, next |-> 0]
Parsed(v, n) == [ok |-> TRUE, value |-> v, next |-> n]

RECURSIVE SkipWhitespace(_, _)
SkipWhitespace(s, i) ==
    IF i <= Len(s) /\ IsWhitespace(s[i]) THEN SkipWhitespace(s, i + 1) ELSE i

StartsWith(s, i, word) ==
    i + Len(word) - 1 <= Len(s) /\ SubSeq(s, i, i + Len(word) - 1) = word

RECURSIVE ParseDigits(_, _, _)
ParseDigits(s, i, acc) ==
    IF i <= Len(s) /\ IsDigit(s[i])
    THEN ParseDigits(s, i + 1, acc * 10 + DigitValue(s[i]))
    ELSE Parsed(Num(acc), i)

\* A number: no leading zero
ParseNumber(s, i) ==
    IF s[i] = "0"
    THEN IF i + 1 <= Len(s) /\ IsDigit(s[i + 1]) THEN ParseFailure ELSE Parsed(Num(0), i + 1)
    ELSE ParseDigits(s, i, 0)

\* The characters of a string after its opening quote
RECURSIVE ParseChars(_, _, _)
ParseChars(s, i, acc) ==
    IF i > Len(s) THEN ParseFailure
    ELSE IF s[i] = "\"" THEN Parsed(Str(acc), i + 1)
    ELSE IF s[i] = "\\"
         THEN IF i + 1 > Len(s) THEN ParseFailure
              ELSE IF s[i + 1] \in {"\"", "\\", "/"} THEN ParseChars(s, i + 2, Append(acc, s[i + 1]))
              ELSE IF s[i + 1] = "n" THEN ParseChars(s, i + 2, Append(acc, "\n"))
              ELSE IF s[i + 1] = "t" THEN ParseChars(s, i + 2, Append(acc, "\t"))
              ELSE IF s[i + 1] = "r" THEN ParseChars(s, i + 2, Append(acc, "\r"))
              ELSE ParseFailure
    ELSE IF s[i] \in {"\n", "\t", "\r"} THEN ParseFailure
    ELSE ParseChars(s, i + 1, Append(acc, s[i]))

RECURSIVE ParseValue(_, _)
RECURSIVE ParseElements(_, _, _)
RECURSIVE ParseMembers(_, _, _)

\* The elements of an array; i is the position of the next element
ParseElements(s, i, acc) ==
    LET element == ParseValue(s, i)
        e == SkipWhitespace(s, element.next)
    IN  IF ~element.ok THEN ParseFailure
        ELSE IF e > Len(s) THEN ParseFailure
        ELSE IF s[e] = "]" THEN Parsed(Arr(Append(acc, element.value)), e + 1)
        ELSE IF s[e] = "," THEN ParseElements(s, e + 1, Append(acc, element.value))
        ELSE ParseFailure

\* The members of an object; i is the position of the next name. A repeated
\* name keeps its last value.
ParseMembers(s, i, acc) ==
    IF i > Len(s) \/ s[i] # "\"" THEN ParseFailure
    ELSE LET name == ParseChars(s, i + 1, <<>>)
             colon == SkipWhitespace(s, name.next)
             member == ParseValue(s, colon + 1)
             e == SkipWhitespace(s, member.next)
             members == Spread(acc, NameOf(name.value.v) :> member.value)
         IN  IF ~name.ok THEN ParseFailure
             ELSE IF ~IsPropertyName(name.value.v) THEN ParseFailure
             ELSE IF colon > Len(s) THEN ParseFailure
             ELSE IF s[colon] # ":" THEN ParseFailure
             ELSE IF ~member.ok THEN ParseFailure
             ELSE IF e > Len(s) THEN ParseFailure
             ELSE IF s[e] = "}" THEN Parsed(Obj(members), e + 1)
             ELSE IF s[e] = "," THEN ParseMembers(s, SkipWhitespace(s, e + 1), members)
             ELSE ParseFailure

ParseValue(s, i0) ==
    LET i == SkipWhitespace(s, i0)
    IN  IF i > Len(s) THEN ParseFailure
        ELSE IF s[i] = "{"
             THEN LET m == SkipWhitespace(s, i + 1)
                  IN  IF m <= Len(s) /\ s[m] = "}" THEN Parsed(Obj(<<>>), m + 1)
                      ELSE ParseMembers(s, m, <<>>)
        ELSE IF s[i] = "["
             THEN LET m == SkipWhitespace(s, i + 1)
                  IN  IF m <= Len(s) /\ s[m] = "]" THEN Parsed(Arr(<<>>), m + 1)
                      ELSE ParseElements(s, m, <<>>)
        ELSE IF s[i] = "\"" THEN ParseChars(s, i + 1, <<>>)
        ELSE IF IsDigit(s[i]) THEN ParseNumber(s, i)
        ELSE IF StartsWith(s, i, <<"t", "r", "u", "e">>) THEN Parsed(Bool(TRUE), i + 4)
        ELSE IF StartsWith(s, i, <<"f", "a", "l", "s", "e">>) THEN Parsed(Bool(FALSE), i + 5)
        ELSE IF StartsWith(s, i, <<"n", "u", "l", "l">>) THEN Parsed(Null, i + 4)
        ELSE ParseFailure

\* The whole text is one JSON value with white space around it
ParseDocument(text) ==
    LET parsed == ParseValue(text, 1)
    IN  IF parsed.ok /\ SkipWhitespace(text, parsed.next) > Len(text) THEN parsed
        ELSE ParseFailure

\* JSON.parse(text) does not throw
IsValidJson(text) == ParseDocument(text).ok

\* JSON.parse(text)
JSONparse(text) == ParseDocument(text).value

Returned(v) == [throws |-> FALSE, value |-> v]
Thrown == [throws |-> TRUE, value |-> Undefined]

\* new BadRequestException(`${label} must be valid JSON when provided.`)
InvalidJson(label) == [throws |-> TRUE, value |-> Undefined, label |-> label]

\* parseJsonField, with the slip that swallows the error of JSON.parse
parseJsonField_SwallowsError(label, value) ==
    IF IsFalsy(value) THEN Returned(Undefined)
    ELSE IF IsValidJson(value.v) THEN Returned(JSONparse(value.v))
    ELSE Returned(Undefined)

\* parseJsonField: undefined for a falsy input, else JSON.parse or BadRequestException
parseJsonField(label, value) ==
    IF IsFalsy(value) THEN Returned(Undefined)
    ELSE IF IsValidJson(value.v) THEN Returned(JSONparse(value.v))
    ELSE InvalidJson(label)

\* parseMetadata: undefined unless a non-blank string, else parseJsonField
parseMetadata(metadata) ==
    IF metadata.t # "string" \/ Len(Trim(metadata.v)) = 0
    THEN Returned(Undefined)
    ELSE parseJsonField("metadata", metadata)

\* parseAreaData
parseAreaData(areaData) == parseJsonField("areaData", areaData)

\* typeof x
TypeOf(x) == IF x.t \in {"object", "array", "null", "date"} THEN "object" ELSE x.t

\* mergeMetadata spreading the caller's keys over the provenance
mergeMetadata_CallerWins(metadata, additional) ==
    IF ~IsFalsy(metadata) /\ TypeOf(metadata) = "object" /\ metadata.t # "array"
    THEN Obj(Spread(additional, metadata.v))
    ELSE IF metadata.t # "undefined"
         THEN Obj(Spread([value |-> metadata], additional))
         ELSE Obj(additional)

\* mergeMetadata wrapping only a truthy value: if (metadata)
mergeMetadata_TruthyWrap(metadata, additional) ==
    IF ~IsFalsy(metadata) /\ TypeOf(metadata) = "object" /\ metadata.t # "array"
    THEN Obj(Spread(metadata.v, additional))
    ELSE IF ~IsFalsy(metadata)
         THEN Obj(Spread([value |-> metadata], additional))
         ELSE Obj(additional)

\* mergeMetadata(metadata, additional); additional is a key map
mergeMetadata(metadata, additional) ==
    IF ~IsFalsy(metadata) /\ TypeOf(metadata) = "object" /\ metadata.t # "array"
    THEN Obj(Spread(metadata.v, additional))
    ELSE IF metadata.t # "undefined"
         THEN Obj(Spread([value |-> metadata], additional))
         ELSE Obj(additional)

----------------------------------------------------------------------------
(* Enrichment client: mapping of the structured response *)

\* The date strings new Date() can parse, among those the service may return
ParsableDates == { <<"2", "0", "2", "0">> }

\* coerceString
coerceString(value) ==
    IF value.t = "string" /\ Len(Trim(value.v)) > 0 THEN Str(Trim(value.v)) ELSE Null

\* coerceDate
coerceDate(value) ==
    IF value.t # "string" THEN Null
    ELSE IF Trim(value.v) = <<>> THEN Null
    ELSE IF Trim(value.v) \in ParsableDates THEN DateOf(Trim(value.v)) ELSE Null

\* mapAiExtraction: the normalized fields and the raw JSON echo
mapAiExtraction(extraction) ==
    LET title == coerceString(extraction.title)
        court == coerceString(extraction.court)
        caseNumber == coerceString(extraction.caseNumber)
        summary == coerceString(extraction.summary)
        caseType == coerceString(extraction.caseType)
        area == coerceString(extraction.area)
        date == coerceDate(extraction.date)
        rawDate == IF extraction.date.t = "string" /\ Len(Trim(extraction.date.v)) > 0
                   THEN Str(Trim(extraction.date.v)) ELSE Null
        areaData == Coalesce(extraction.areaData, Null)
        metadata == Coalesce(extraction.metadata, Null)
    IN  [t |-> "object",
         fields |-> [title |-> title, date |-> date, court |-> court,
                     caseNumber |-> caseNumber, summary |-> summary,
                     caseType |-> caseType, area |-> area,
                     areaData |-> areaData, metadata |-> metadata],
         json |-> Obj([title |-> title, date |-> rawDate, court |-> court,
                       caseNumber |-> caseNumber, summary |-> summary,
                       caseType |-> caseType, area |-> area,
                       areaData |-> areaData, metadata |-> metadata])]

\* The try/catch of enrichMetadataFromText around client.responses.parse:
\* a throw and an empty output_parsed both yield null.
enrichmentOf(response) ==
    IF response.throws THEN Null
    ELSE IF IsFalsy(response.output_parsed) THEN Null
    ELSE mapAiExtraction(response.output_parsed.v)

\* aiEnrichment?.fields.<f>
AiField(aiEnrichment, f) ==
    IF IsNullish(aiEnrichment) THEN Undefined ELSE aiEnrichment.fields[f]

\* aiEnrichment?.json
AiJson(aiEnrichment) ==
    IF IsNullish(aiEnrichment) THEN Undefined ELSE aiEnrichment.json

----------------------------------------------------------------------------
(* Merge policy of handleUpload *)

\* The provenance object handed to mergeMetadata
provenance(filename, mimetype, rawText, aiEnrichment) ==
    [originalFileName |-> Str(filename),
     mimeType |-> Coalesce(mimetype, Null),
     rawText |-> IF Len(rawText) > 0 THEN Str(rawText) ELSE Null,
     aiExtraction |-> Coalesce(AiJson(aiEnrichment), Null)]

\* uploadData with the AI value of caseType tried before the caller's
uploadData_AiFirst(filename, options, aiEnrichment, combinedMetadata, areaDataInput) ==
    [fileName |-> Str(filename),
     title |-> Coalesce(Coalesce(options.title, AiField(aiEnrichment, "title")), Null),
     date |-> Coalesce(Coalesce(options.date, AiField(aiEnrichment, "date")), Null),
     court |-> Coalesce(Coalesce(options.court, AiField(aiEnrichment, "court")), Null),
     caseNumber |->
        Coalesce(Coalesce(options.caseNumber, AiField(aiEnrichment, "caseNumber")), Null),
     summary |-> Coalesce(Coalesce(options.summary, AiField(aiEnrichment, "summary")), Null),
     metadata |-> combinedMetadata,
     caseType |->
        Coalesce(Coalesce(AiField(aiEnrichment, "caseType"), options.caseType), Null),
     area |-> Coalesce(Coalesce(options.area, AiField(aiEnrichment, "area")), Null),
     areaData |-> IF areaDataInput.t # "undefined" THEN areaDataInput
                  ELSE Coalesce(AiField(aiEnrichment, "areaData"), Null)]

\* uploadData, the record handed to prisma.document.create
uploadData(filename, options, aiEnrichment, combinedMetadata, areaDataInput) ==
    [fileName |-> Str(filename),
     title |-> Coalesce(Coalesce(options.title, AiField(aiEnrichment, "title")), Null),
     date |-> Coalesce(Coalesce(options.date, AiField(aiEnrichment, "date")), Null),
     court |-> Coalesce(Coalesce(options.court, AiField(aiEnrichment, "court")), Null),
     caseNumber |->
        Coalesce(Coalesce(options.caseNumber, AiField(aiEnrichment, "caseNumber")), Null),
     summary |-> Coalesce(Coalesce(options.summary, AiField(aiEnrichment, "summary")), Null),
     metadata |-> combinedMetadata,
     caseType |->
        Coalesce(Coalesce(options.caseType, AiField(aiEnrichment, "caseType")), Null),
     area |-> Coalesce(Coalesce(options.area, AiField(aiEnrichment, "area")), Null),
     areaData |-> IF areaDataInput.t # "undefined" THEN areaDataInput
                  ELSE Coalesce(AiField(aiEnrichment, "areaData"), Null)]

----------------------------------------------------------------------------
(* Inputs *)

ScalarFields == {"title", "date", "court", "caseNumber", "summary", "caseType", "area"}

\* A caller's value for each scalar field, different per field
CallerValue ==
    [title |-> Str(<<"T", "u">>), date |-> DateOf(<<"1", "9", "9", "9">>),
     court |-> Str(<<"C", "u">>), caseNumber |-> Str(<<"N", "u">>),
     summary |-> Str(<<"S", "u">>), caseType |-> Str(<<"K", "u">>),
     area |-> Str(<<"A", "u">>)]

\* The scalar part of the options: every field omitted, every field null, every
\* field given, and two mixtures (one with an empty-string title).
ScalarProfiles == {
    [f \in ScalarFields |-> Undefined],
    [f \in ScalarFields |-> Null],
    [f \in ScalarFields |-> CallerValue[f]],
    [f \in ScalarFields |->
        IF f \in {"title", "caseNumber", "area"} THEN CallerValue[f]
        ELSE IF f \in {"date", "summary"} THEN Null ELSE Undefined],
    [f \in ScalarFields |->
        IF f \in {"date", "court", "caseType"} THEN CallerValue[f]
        ELSE IF f = "title" THEN Str(<<>>)
        ELSE IF f = "caseNumber" THEN Null ELSE Undefined] }

NoScalars == [f \in ScalarFields |-> Undefined]

\* Caller texts for the metadata and areaData options
JsonInputs ==
    {Undefined, Null, Str(<<>>), Str(<<" ">>), Str(<<"{", "k">>)}
        \cup {Str(d.text) : d \in JsonDocuments}
        \cup {Str(<<" ", "0", "\n">>)}

\* UploadDocumentOptions: the scalar fields plus the two JSON texts
OptionsOf(scalars, metadata, areaData) ==
    [title |-> scalars.title, date |-> scalars.date, court |-> scalars.court,
     caseNumber |-> scalars.caseNumber, summary |-> scalars.summary,
     metadata |-> metadata, caseType |-> scalars.caseType, area |-> scalars.area,
     areaData |-> areaData]

NoOptions == OptionsOf(NoScalars, Undefined, Undefined)

BriefPdf == <<"b", "r", "i", "e", "f", ".", "p", "d", "f">>
NotesTxt == <<"n", "o", "t", "e", "s", ".", "t", "x", "t">>
PageHtm == <<"p", "a", "g", "e", ".", "H", "T", "M">>
TextPlain == <<"t", "e", "x", "t", "/", "p", "l", "a", "i", "n">>
ApplicationPdf ==
    <<"a", "p", "p", "l", "i", "c", "a", "t", "i", "o", "n", "/", "p", "d", "f">>

FileOf(filename, mimetype) == [filename |-> filename, mimetype |-> mimetype]

\* The uploads: supported, unsupported and blank file names, with and without a
\* declared MIME type
UploadFiles == {
    FileOf(BriefPdf, Undefined),
    FileOf(BriefPdf, Str(TextPlain)),
    FileOf(NotesTxt, Str(TextPlain)),
    FileOf(NotesTxt, Null),
    FileOf(NotesTxt, Str(ApplicationPdf)),
    FileOf(PageHtm, Str(TextPlain)),
    FileOf(<<>>, Str(ApplicationPdf)),
    FileOf(<<" ", " ">>, Str(ApplicationPdf)),
    FileOf(<<" ">>, Undefined) }

\* The requests: each varies the file, the scalar options, the metadata text
\* or the areaData text, and one gives everything at once.
UploadRequests ==
    {[file |-> f, options |-> NoOptions] : f \in UploadFiles}
    \cup {[file |-> FileOf(BriefPdf, Undefined), options |-> OptionsOf(p, Undefined, Undefined)] :
            p \in ScalarProfiles}
    \cup {[file |-> FileOf(PageHtm, Str(TextPlain)), options |-> OptionsOf(NoScalars, m, Undefined)] :
            m \in JsonInputs}
    \cup {[file |-> FileOf(BriefPdf, Undefined), options |-> OptionsOf(NoScalars, Undefined, a)] :
            a \in JsonInputs}
    \cup {[file |-> FileOf(BriefPdf, Str(ApplicationPdf)),
           options |-> OptionsOf(CallerValue, Str(<<"{", "\"", "k", "\"", ":", "1", "}">>),
                                 Str(<<"{", "\"", "k", "\"", ":", "1", "}">>))]}

\* What the stream of an upload holds: the number of bytes, whether the parser
\* (pdf-parse, cheerio) accepts them, and the text it returns.
StreamContents == {
    [bytes |-> 0, parses |-> TRUE, text |-> <<>>],
    [bytes |-> 9, parses |-> FALSE, text |-> <<>>],
    [bytes |-> 9, parses |-> TRUE, text |-> <<" ", "\n", " ">>],
    [bytes |-> 9, parses |-> TRUE, text |-> <<" ", "l", "a", "w", " ", "\n", "1", " ">>] }

\* process.env.OPENAI_API_KEY: unset, empty, set
ApiKeys == {Undefined, Str(<<>>), Str(<<"s", "k">>)}

AiPair == Obj([key |-> Str(<<"c">>), value |-> Str(<<"X">>)])

\* Payloads that pass DocumentExtractionSchema: every field filled, and one with
\* omitted, null and empty fields and a date that does not parse.
AiPayloads == {
    [title |-> Str(<<"T", "a">>), date |-> Str(<<"2", "0", "2", "0">>),
     court |-> Str(<<"C", "a">>), caseNumber |-> Str(<<"N", "a">>),
     summary |-> Str(<<"S", "a">>), caseType |-> Str(<<"K", "a">>),
     area |-> Str(<<"A", "a">>), areaData |-> Arr(<<AiPair>>), metadata |-> Null],
    [title |-> Undefined, date |-> Str(<<"n", "/", "a">>),
     court |-> Null, caseNumber |-> Str(<<>>),
     summary |-> Str(<<"S", "a">>), caseType |-> Undefined,
     area |-> Null, areaData |-> Undefined, metadata |-> Arr(<<AiPair>>)] }

\* What awaiting client.responses.parse gives: a throw (transport failure, or a
\* response that fails schema validation), an empty output_parsed, or a payload.
AiResponses ==
    {[throws |-> TRUE, output_parsed |-> Null],
     [throws |-> FALSE, output_parsed |-> Null]}
    \cup {[throws |-> FALSE, output_parsed |-> Obj(p)] : p \in AiPayloads}

----------------------------------------------------------------------------
(* State *)

\* A stored Document row
ExistingDocument ==
    [fileName |-> Str(<<"o", "l", "d", ".", "p", "d", "f">>),
     title |-> Str(<<"O", "l", "d">>), date |-> Null, court |-> Null,
     caseNumber |-> Null, summary |-> Null, metadata |-> Null,
     caseType |-> Null, area |-> Null, areaData |-> Null]

\* No upload in flight
IdleRequest ==
    [pc |-> "idle", file |-> FileOf(<<>>, Undefined), options |-> NoOptions,
     fileKind |-> "none", rawText |-> <<>>, aiEnrichment |-> Null,
     error |-> "none", effects |-> <<>>, id |-> 0, storeBefore |-> <<>>]

\* No create, update or delete in progress; count is the number of operations
\* started so far and limit the number that can be started, thrown what the
\* persistence call of the operation threw; created holds what createDocument
\* returned for each id, deleted the ids deleteDocument removed, found the ids
\* a lookup returned a record for and missed the deleted ids a lookup found
\* nothing for
IdleOperation ==
    [pc |-> "idle", kind |-> "none", input |-> NoOptions, id |-> 0,
     error |-> [name |-> "none", detail |-> ""],
     thrown |-> [name |-> "none", detail |-> ""], effects |-> <<>>,
     storeBefore |-> <<>>, count |-> 0, text |-> Null, result |-> Returned(Undefined),
     limit |-> MaxOps, created |-> <<>>, deleted |-> {}, found |-> {}, missed |-> {}]

\* No run of the metadata parser script in progress; dryRun is the flag of the
\* script and dryRunArgument what the service is called with, runs the number
\* of runs started so far, selected the ids the run was started on, writes the
\* ids of the persistence calls of the current run, converted the rows that
\* live runs have converted; read is the row the current record was read as
\* and overwritten the row the last write of the run replaced; args is the
\* command line of the run
IdleNormalizer ==
    [pc |-> "idle", mode |-> "none", dryRun |-> FALSE, dryRunArgument |-> FALSE,
     queue |-> <<>>, selected |-> <<>>, read |-> <<>>, overwritten |-> <<>>,
     args |-> [documentId |-> Undefined, dryRun |-> FALSE, help |-> FALSE],
     reports |-> <<>>, writes |-> <<>>, storeBefore |-> <<>>, runs |-> 0,
     converted |-> <<>>,
     summary |-> [processedCount |-> 0, changedCount |-> 0, failedCount |-> 0,
                  results |-> <<>>]]

\* The seed script is not running.  source is the seed file that was found,
\* answer what was typed at the prompt, calls the database calls made so far,
\* exitCode the code of process.exit (-1 while there was none)
NoSeed ==
    [pc |-> "off", source |-> "none", force |-> FALSE, dryRun |-> FALSE,
     upsertMode |-> FALSE, isTTY |-> FALSE, answer |-> <<>>, asked |-> FALSE,
     calls |-> <<>>, exitCode |-> -1, disconnected |-> FALSE, storeBefore |-> <<>>,
     seedData |-> <<>>]

\* PrismaService has not been started.  attempt is the loop variable of
\* onModuleInit, log the outcome of each attempt made so far, error the message
\* of the error onModuleInit threw, connects, queries and disconnects the
\* numbers of $connect, $queryRaw and $disconnect calls
NoPrismaService ==
    [pc |-> "off", attempt |-> 0, isConnected |-> FALSE, log |-> <<>>,
     error |-> "none", connects |-> 0, queries |-> 0, disconnects |-> 0]

\* No concurrent enrichment attempts are being followed.  attempts holds the
\* position of each call of enrichMetadataFromText and the client it uses, log
\* what getOpenAiClient did for the calls, in the order they ran
NoEnrichment == [attempts |-> <<>>, log |-> <<>>]

\* The classifier is not being exercised on its own
NotClassifying ==
    [pc |-> "off", filename |-> <<>>, mimetype |-> Undefined, result |-> "none"]

Init ==
    /\ store = <<ExistingDocument>>
    /\ nextId = 2
    /\ openaiClient = Null
    /\ openAiApiKey \in ApiKeys
    /\ req = IdleRequest
    /\ cls = NotClassifying
    /\ op = IdleOperation
    /\ norm = IdleNormalizer
    /\ seed = NoSeed
    /\ prismaService = NoPrismaService
    /\ enrich = NoEnrichment

Fail(r, error) == [r EXCEPT !.pc = "failed", !.error = error]

----------------------------------------------------------------------------
(* handleUpload *)

\* handleUpload up to its first await: detectFileKind, the rejection of an
\* unknown kind, and file.createReadStream()
StartUpload(u) ==
    LET fileKind == detectFileKind(u.file.filename, u.file.mimetype)
        r == [IdleRequest EXCEPT !.file = u.file, !.options = u.options,
                                 !.storeBefore = store]
    IN  IF fileKind = "BadRequestException"
        THEN Fail(r, "BadRequestException")
        ELSE IF fileKind = "unknown"
        THEN Fail(r, "UnsupportedMediaTypeException")
        ELSE [r EXCEPT !.pc = "extracting", !.fileKind = fileKind,
                       !.effects = <<"createReadStream">>]

UploadDocument ==
    /\ req.pc = "idle"
    /\ nextId <= MaxDocs
    /\ \E u \in UploadRequests : req' = StartUpload(u)
    /\ UNCHANGED <<store, nextId, openaiClient, openAiApiKey, cls, op, norm, seed,
                 prismaService, enrich>>

\* extractPdfText: the stream read to a buffer, then pdf-parse
extractPdfText(content) ==
    IF content.bytes = 0 THEN Thrown
    ELSE IF ~content.parses THEN Thrown
    ELSE Returned(Str(Trim(content.text)))

\* extractHtmlText: the stream read to a string, then cheerio
extractHtmlText(content) ==
    IF ~content.parses THEN Thrown
    ELSE Returned(Str(Trim(CollapseWhitespace(content.text))))

\* The test before enrichMetadataFromText, with the slip that always enriches
enrichmentDue_Always(rawText) == TRUE

\* rawText.length > 0 ? await this.enrichMetadataFromText(rawText) : null
enrichmentDue(rawText) == Len(rawText) > 0

\* The extractor returns: rawText, and the enrichment step only for non-empty text
ExtractText ==
    /\ req.pc = "extracting"
    /\ \E content \in StreamContents :
        LET extracted == IF req.fileKind = "pdf" THEN extractPdfText(content)
                         ELSE extractHtmlText(content)
            r == [req EXCEPT !.effects = Append(@, "readStream")]
        IN  req' = IF extracted.throws
                   THEN Fail(r, "BadRequestException")
                   ELSE [r EXCEPT !.rawText = extracted.value.v,
                                  !.pc = IF enrichmentDue(extracted.value.v)
                                         THEN "enriching" ELSE "merging"]
    /\ UNCHANGED <<store, nextId, openaiClient, openAiApiKey, cls, op, norm, seed,
                 prismaService, enrich>>

\* if (!apiKey), with the `===  undefined` slip it is compared against
credentialMissing_OnlyUndefined(apiKey) == apiKey.t = "undefined"

\* if (!apiKey) in enrichMetadataFromText
credentialMissing(apiKey) == IsFalsy(apiKey)

\* enrichMetadataFromText without a credential: null, no client, no call
EnrichSkipped ==
    /\ req.pc = "enriching"
    /\ credentialMissing(openAiApiKey)
    /\ req' = [req EXCEPT !.pc = "merging", !.aiEnrichment = Null]
    /\ UNCHANGED <<store, nextId, openaiClient, openAiApiKey, cls, op, norm, seed,
                 prismaService, enrich>>

\* getOpenAiClient throws: new OpenAI() failed, and the error leaves
\* enrichMetadataFromText and handleUpload
EnrichClientFails ==
    /\ req.pc = "enriching"
    /\ ~credentialMissing(openAiApiKey)
    /\ IsFalsy(openaiClient)
    /\ req' = Fail([req EXCEPT !.effects = Append(@, "new OpenAI")], "Error")
    /\ UNCHANGED <<store, nextId, openaiClient, openAiApiKey, cls, op, norm, seed,
                 prismaService, enrich>>

\* enrichMetadataFromText up to its await: getOpenAiClient (constructing the
\* client when there is none) and the call of client.responses.parse
EnrichCall ==
    /\ req.pc = "enriching"
    /\ ~credentialMissing(openAiApiKey)
    /\ IF IsFalsy(openaiClient)
       THEN /\ openaiClient' = Obj([apiKey |-> openAiApiKey])
            /\ req' = [req EXCEPT !.pc = "awaitingAi",
                                  !.effects = @ \o <<"new OpenAI", "responses.parse">>]
       ELSE /\ openaiClient' = openaiClient
            /\ req' = [req EXCEPT !.pc = "awaitingAi",
                                  !.effects = Append(@, "responses.parse")]
    /\ UNCHANGED <<store, nextId, openAiApiKey, cls, op, norm, seed,
                 prismaService, enrich>>

\* The call returns or throws; enrichMetadataFromText returns the mapping or null
EnrichResponse ==
    /\ req.pc = "awaitingAi"
    /\ \E response \in AiResponses :
        req' = [req EXCEPT !.pc = "merging", !.aiEnrichment = enrichmentOf(response)]
    /\ UNCHANGED <<store, nextId, openaiClient, openAiApiKey, cls, op, norm, seed,
                 prismaService, enrich>>

\* The rest of handleUpload: the caller's JSON texts are decoded, the metadata
\* merged, uploadData assembled and prisma.document.create called; the call
\* inserts the row or throws.
CreateFromUpload ==
    /\ req.pc = "merging"
    /\ LET metadataInput == parseMetadata(req.options.metadata)
           areaDataInput == parseAreaData(req.options.areaData)
       IN  IF metadataInput.throws \/ areaDataInput.throws
           THEN /\ req' = Fail(req, "BadRequestException")
                /\ UNCHANGED <<store, nextId>>
           ELSE LET combinedMetadata ==
                        mergeMetadata(metadataInput.value,
                                      provenance(req.file.filename, req.file.mimetype,
                                                 req.rawText, req.aiEnrichment))
                    data == uploadData(req.file.filename, req.options, req.aiEnrichment,
                                       combinedMetadata, areaDataInput.value)
                    called == [req EXCEPT !.effects = Append(@, "prisma.document.create")]
                IN  \/ /\ store' = [i \in (DOMAIN store) \cup {nextId} |->
                                        IF i = nextId THEN data ELSE store[i]]
                       /\ nextId' = nextId + 1
                       /\ req' = [called EXCEPT !.pc = "done", !.id = nextId]
                    \/ /\ req' = Fail(called, "PrismaClientError")
                       /\ UNCHANGED <<store, nextId>>
    /\ UNCHANGED <<openaiClient, openAiApiKey, cls, op, norm, seed,
                 prismaService, enrich>>

\* handleUpload has returned the document or thrown: the request is over
Respond ==
    /\ req.pc \in {"done", "failed"}
    /\ req' = IdleRequest
    /\ UNCHANGED <<store, nextId, openaiClient, openAiApiKey, cls, op, norm, seed,
                 prismaService, enrich>>

Next ==
    \/ UploadDocument
    \/ ExtractText
    \/ EnrichSkipped
    \/ EnrichClientFails
    \/ EnrichCall
    \/ EnrichResponse
    \/ CreateFromUpload
    \/ Respond

Spec == Init /\ [][Next]_vars

----------------------------------------------------------------------------
(* The classifier on its own: detectFileKind over file names and MIME types *)

NameStems == {
    <<>>,
    <<"a">>,
    <<"a", ".", "b">>,
    <<".">>,
    <<" ">>,
    <<"d", ".", "p", "d", "f", "/", "a">> }

NameSuffixes == {
    <<>>,
    DotPdf,
    <<".", "P", "D", "F">>,
    <<".", "P", "d", "f">>,
    DotHtml,
    DotHtm,
    <<".", "H", "T", "M">>,
    <<".", "h", "t", "m", "x">>,
    <<".", "t", "x", "t">>,
    Pdf,
    <<".", "p", "d", "f", "/">>,
    <<".", "p", "d", "f", " ">>,
    <<".", "p", "d", "f", ".", "h", "t", "m">>,
    <<".", "h", "t", "m", "l", ".", "p", "d", "f">>,
    <<".">>,
    <<" ">> }

ClassifierNames == {stem \o suffix : stem \in NameStems, suffix \in NameSuffixes}

ClassifierMimes == {
    Undefined,
    Null,
    Str(<<>>),
    Str(TextPlain),
    Str(ApplicationPdf),
    Str(<<"A", "p", "p", "l", "i", "c", "a", "t", "i", "o", "n", "/", "P", "D", "F">>),
    Str(<<"t", "e", "x", "t", "/", "h", "t", "m", "l">>),
    Str(<<"T", "E", "X", "T", "/", "H", "T", "M", "L">>),
    Str(<<"a", "p", "p", "l", "i", "c", "a", "t", "i", "o", "n", "/",
          "x", "h", "t", "m", "l", "+", "x", "m", "l">>),
    Str(<<"a", "p", "p", "l", "i", "c", "a", "t", "i", "o", "n", "/",
          "o", "c", "t", "e", "t", "-", "s", "t", "r", "e", "a", "m">>),
    Str(<<"t", "e", "x", "t", "/", "x", "-", "p", "d", "f", "+", "h", "t", "m", "l">>) }

InitClassify ==
    /\ store = <<ExistingDocument>>
    /\ nextId = 2
    /\ openaiClient = Null
    /\ openAiApiKey = Undefined
    /\ req = IdleRequest
    /\ op = IdleOperation
    /\ norm = IdleNormalizer
    /\ seed = NoSeed
    /\ prismaService = NoPrismaService
    /\ enrich = NoEnrichment
    /\ \E n \in ClassifierNames, m \in ClassifierMimes :
        cls = [pc |-> "pending", filename |-> n, mimetype |-> m, result |-> "none"]

\* One call of detectFileKind
Classify ==
    /\ cls.pc = "pending"
    /\ cls' = [cls EXCEPT !.pc = "classified",
                          !.result = detectFileKind(cls.filename, cls.mimetype)]
    /\ UNCHANGED <<store, nextId, openaiClient, openAiApiKey, req, op, norm, seed,
                 prismaService, enrich>>

NextClassify == Classify

SpecClassify == InitClassify /\ [][NextClassify]_vars

----------------------------------------------------------------------------
(* Explicit create, update and delete *)

JsonFields == {"metadata", "areaData"}
DocumentFields == {"fileName"} \cup ScalarFields \cup JsonFields

BadRequestException(message) == [name |-> "BadRequestException", detail |-> message]
NotFoundException == [name |-> "NotFoundException", detail |-> "Document was not found."]

\* What Prisma throws for a record that does not exist
RecordNotFound == [name |-> "PrismaClientKnownRequestError", detail |-> "P2025"]

\* Other failures of a persistence call: a known request error with another
\* code, and an unreachable database
PersistenceErrors == {
    [name |-> "PrismaClientKnownRequestError", detail |-> "P2002"],
    [name |-> "PrismaClientInitializationError", detail |-> "P1001"] }

\* A persistence call goes through to the table or fails on the way
PersistenceOutcomes == {[name |-> "none", detail |-> ""]} \cup PersistenceErrors

\* The catch block that turns every known request error into NotFoundException
persistenceError_AnyKnownError(error) ==
    IF error.name = "PrismaClientKnownRequestError" THEN NotFoundException ELSE error

\* The catch block of updateDocument and deleteDocument
persistenceError(error) ==
    IF error.name = "PrismaClientKnownRequestError" /\ error.detail = "P2025"
    THEN NotFoundException
    ELSE error

\* stringifyMetadata with String(metadata) in place of JSON.stringify
stringifyMetadata_ToString(metadata) ==
    IF IsNullish(metadata) THEN Null
    ELSE IF metadata.t = "string" THEN metadata
    ELSE Str(<<"[", "o", "b", "j", "e", "c", "t", " ", "O", "b", "j", "e", "c", "t", "]">>)

\* stringifyMetadata: null stays null, a string is returned as it is, any other
\* JSON value is serialized
stringifyMetadata(metadata) ==
    IF IsNullish(metadata) THEN Null
    ELSE IF metadata.t = "string" THEN metadata
    ELSE Str(JSONstringify(metadata))

\* mapToDocumentType of the row with the given id: the file name trimmed, a
\* scalar column that holds no string exposed as null, the date kept, and the
\* two JSON columns as text (the timestamps are left out)
mapToDocumentType(id, row) ==
    [id |-> id,
     fileName |-> IF row.fileName.t = "string" THEN Str(Trim(row.fileName.v)) ELSE Str(<<>>),
     title |-> IF row.title.t = "string" THEN row.title ELSE Null,
     date |-> IF row.date.t = "date" THEN row.date ELSE Null,
     court |-> IF row.court.t = "string" THEN row.court ELSE Null,
     caseNumber |-> IF row.caseNumber.t = "string" THEN row.caseNumber ELSE Null,
     summary |-> IF row.summary.t = "string" THEN row.summary ELSE Null,
     caseType |-> IF row.caseType.t = "string" THEN row.caseType ELSE Null,
     area |-> IF row.area.t = "string" THEN row.area ELSE Null,
     areaData |-> stringifyMetadata(Coalesce(row.areaData, Null)),
     metadata |-> stringifyMetadata(Coalesce(row.metadata, Null))]

\* The row Prisma writes for a create: a column whose value is undefined gets
\* its default, NULL
createdRow(data) ==
    [f \in DOMAIN data |-> IF data[f].t = "undefined" THEN Null ELSE data[f]]

\* createDocument (generateRandom false) up to prisma.document.create: the
\* guard on fileName, the two JSON texts decoded, and createData
createDocumentData(options) ==
    LET metadata == parseMetadata(options.metadata)
        areaData == parseAreaData(options.areaData)
    IN  IF IsFalsy(options.fileName) \/ Trim(options.fileName.v) = <<>>
        THEN [throws |-> TRUE,
              error |-> BadRequestException("fileName is required to create a document.")]
        ELSE IF metadata.throws
        THEN [throws |-> TRUE,
              error |-> BadRequestException("metadata must be valid JSON when provided.")]
        ELSE IF areaData.throws
        THEN [throws |-> TRUE,
              error |-> BadRequestException("areaData must be valid JSON when provided.")]
        ELSE [throws |-> FALSE,
              data |-> [fileName |-> options.fileName,
                        title |-> Coalesce(options.title, Null),
                        date |-> Coalesce(options.date, Null),
                        court |-> Coalesce(options.court, Null),
                        caseNumber |-> Coalesce(options.caseNumber, Null),
                        summary |-> Coalesce(options.summary, Null),
                        metadata |-> metadata.value,
                        caseType |-> Coalesce(options.caseType, Null),
                        area |-> Coalesce(options.area, Null),
                        areaData |-> Coalesce(areaData.value, Null)]]

\* Object.prototype.hasOwnProperty.call(options, f): the resolver leaves out of
\* the payload every argument that is undefined, so a property is present
\* exactly when its value is not undefined
HasOwnProperty(options, f) == options[f].t # "undefined"

\* The part of `data` that updateDocument sets for a JSON field: JsonNull for
\* null, the decoded value for a text, nothing when the text decodes to undefined
jsonUpdate(options, f, parsed) ==
    IF ~HasOwnProperty(options, f) THEN <<>>
    ELSE IF options[f].t = "null" THEN f :> Null
    ELSE IF parsed.value.t # "undefined" THEN f :> parsed.value
    ELSE <<>>

\* updateDocument without the trim and the guard on fileName
updateDocumentData_NoFileNameCheck(options) ==
    LET metadata == IF HasOwnProperty(options, "metadata") /\ options.metadata.t # "null"
                    THEN parseMetadata(options.metadata) ELSE Returned(Undefined)
        areaData == IF HasOwnProperty(options, "areaData") /\ options.areaData.t # "null"
                    THEN parseAreaData(options.areaData) ELSE Returned(Undefined)
        data == Spread(Spread(Spread(
                    IF HasOwnProperty(options, "fileName")
                    THEN "fileName" :> options.fileName ELSE <<>>,
                    [f \in {g \in ScalarFields : HasOwnProperty(options, g)} |->
                        Coalesce(options[f], Null)]),
                    jsonUpdate(options, "metadata", metadata)),
                    jsonUpdate(options, "areaData", areaData))
    IN  IF metadata.throws
        THEN [throws |-> TRUE,
              error |-> BadRequestException("metadata must be valid JSON when provided.")]
        ELSE IF areaData.throws
        THEN [throws |-> TRUE,
              error |-> BadRequestException("areaData must be valid JSON when provided.")]
        ELSE IF DOMAIN data = {}
        THEN [throws |-> TRUE,
              error |-> BadRequestException("At least one field must be provided to update.")]
        ELSE [throws |-> FALSE, data |-> data]

\* updateDocument without the check that at least one field is set
updateDocumentData_NoEmptyCheck(options) ==
    LET fileName == IF IsNullish(options.fileName) THEN <<>> ELSE Trim(options.fileName.v)
        metadata == IF HasOwnProperty(options, "metadata") /\ options.metadata.t # "null"
                    THEN parseMetadata(options.metadata) ELSE Returned(Undefined)
        areaData == IF HasOwnProperty(options, "areaData") /\ options.areaData.t # "null"
                    THEN parseAreaData(options.areaData) ELSE Returned(Undefined)
        data == Spread(Spread(Spread(
                    IF HasOwnProperty(options, "fileName")
                    THEN "fileName" :> Str(fileName) ELSE <<>>,
                    [f \in {g \in ScalarFields : HasOwnProperty(options, g)} |->
                        Coalesce(options[f], Null)]),
                    jsonUpdate(options, "metadata", metadata)),
                    jsonUpdate(options, "areaData", areaData))
    IN  IF HasOwnProperty(options, "fileName") /\ fileName = <<>>
        THEN [throws |-> TRUE,
              error |-> BadRequestException("fileName must be provided when updating.")]
        ELSE IF metadata.throws
        THEN [throws |-> TRUE,
              error |-> BadRequestException("metadata must be valid JSON when provided.")]
        ELSE IF areaData.throws
        THEN [throws |-> TRUE,
              error |-> BadRequestException("areaData must be valid JSON when provided.")]
        ELSE [throws |-> FALSE, data |-> data]

\* updateDocument setting every field the request names to a non-null value
\* only: if (options.f != null) in place of hasOwnProperty
updateDocumentData_SkipsNull(options) ==
    LET fileName == IF IsNullish(options.fileName) THEN <<>> ELSE Trim(options.fileName.v)
        metadata == IF HasOwnProperty(options, "metadata") /\ options.metadata.t # "null"
                    THEN parseMetadata(options.metadata) ELSE Returned(Undefined)
        areaData == IF HasOwnProperty(options, "areaData") /\ options.areaData.t # "null"
                    THEN parseAreaData(options.areaData) ELSE Returned(Undefined)
        data == Spread(Spread(Spread(
                    IF HasOwnProperty(options, "fileName")
                    THEN "fileName" :> Str(fileName) ELSE <<>>,
                    [f \in {g \in ScalarFields : ~IsNullish(options[g])} |-> options[f]]),
                    jsonUpdate(options, "metadata", metadata)),
                    jsonUpdate(options, "areaData", areaData))
    IN  IF HasOwnProperty(options, "fileName") /\ fileName = <<>>
        THEN [throws |-> TRUE,
              error |-> BadRequestException("fileName must be provided when updating.")]
        ELSE IF metadata.throws
        THEN [throws |-> TRUE,
              error |-> BadRequestException("metadata must be valid JSON when provided.")]
        ELSE IF areaData.throws
        THEN [throws |-> TRUE,
              error |-> BadRequestException("areaData must be valid JSON when provided.")]
        ELSE IF DOMAIN data = {}
        THEN [throws |-> TRUE,
              error |-> BadRequestException("At least one field must be provided to update.")]
        ELSE [throws |-> FALSE, data |-> data]

\* updateDocument up to prisma.document.update: `data` is built from the
\* properties the request has, and a request that sets nothing is refused
updateDocumentData(options) ==
    LET fileName == IF IsNullish(options.fileName) THEN <<>> ELSE Trim(options.fileName.v)
        metadata == IF HasOwnProperty(options, "metadata") /\ options.metadata.t # "null"
                    THEN parseMetadata(options.metadata) ELSE Returned(Undefined)
        areaData == IF HasOwnProperty(options, "areaData") /\ options.areaData.t # "null"
                    THEN parseAreaData(options.areaData) ELSE Returned(Undefined)
        data == Spread(Spread(Spread(
                    IF HasOwnProperty(options, "fileName")
                    THEN "fileName" :> Str(fileName) ELSE <<>>,
                    [f \in {g \in ScalarFields : HasOwnProperty(options, g)} |->
                        Coalesce(options[f], Null)]),
                    jsonUpdate(options, "metadata", metadata)),
                    jsonUpdate(options, "areaData", areaData))
    IN  IF HasOwnProperty(options, "fileName") /\ fileName = <<>>
        THEN [throws |-> TRUE,
              error |-> BadRequestException("fileName must be provided when updating.")]
        ELSE IF metadata.throws
        THEN [throws |-> TRUE,
              error |-> BadRequestException("metadata must be valid JSON when provided.")]
        ELSE IF areaData.throws
        THEN [throws |-> TRUE,
              error |-> BadRequestException("areaData must be valid JSON when provided.")]
        ELSE IF DOMAIN data = {}
        THEN [throws |-> TRUE,
              error |-> BadRequestException("At least one field must be provided to update.")]
        ELSE [throws |-> FALSE, data |-> data]

\* File names of explicit create and update
NPdf == <<"n", ".", "p", "d", "f">>
PaddedName == <<" ", "m", ".", "p", "d", "f", "\t">>

ObjectText == <<"{", "\"", "k", "\"", ":", "1", "}">>
PairsText ==
    <<"[", "{", "\"", "k", "e", "y", "\"", ":", "\"", "c", "\"", ",",
      "\"", "v", "a", "l", "u", "e", "\"", ":", "\"", "X", "\"", "}", "]">>

\* Caller texts for metadata and areaData on create and update: null, empty,
\* white space, a text that is not JSON, an object and an array of pairs
CrudJsonInputs ==
    {Null, Str(<<>>), Str(<<" ">>), Str(<<"{", "k">>), Str(ObjectText), Str(PairsText)}

\* CreateDocumentOptions / UpdateDocumentOptions without the id
DocumentOptionsOf(fileName, scalars, metadata, areaData) ==
    [fileName |-> fileName, title |-> scalars.title, date |-> scalars.date,
     court |-> scalars.court, caseNumber |-> scalars.caseNumber,
     summary |-> scalars.summary, metadata |-> metadata, caseType |-> scalars.caseType,
     area |-> scalars.area, areaData |-> areaData]

\* A create request that gives every field
FullCreate == DocumentOptionsOf(Str(NPdf), CallerValue, Str(ObjectText), Str(PairsText))

\* The create requests: each varies the file name, the scalar fields, the
\* metadata text or the areaData text
CreateRequests ==
    {DocumentOptionsOf(n, NoScalars, Undefined, Undefined) :
        n \in {Undefined, Str(<<>>), Str(<<" ", "\t">>), Str(NPdf), Str(PaddedName)}}
    \cup {DocumentOptionsOf(Str(NPdf), p, Undefined, Undefined) : p \in ScalarProfiles}
    \cup {DocumentOptionsOf(Str(NPdf), NoScalars, m, Undefined) : m \in CrudJsonInputs}
    \cup {DocumentOptionsOf(Str(NPdf), NoScalars, Undefined, a) : a \in CrudJsonInputs}
    \cup {DocumentOptionsOf(Str(<<" ">>), CallerValue, Str(<<"{", "k">>), Undefined),
          FullCreate}

\* The update requests: no field at all, the file name, the scalar fields, the
\* metadata text, the areaData text, and requests that mix a blank text or a
\* blank file name with a valid field
UpdateRequests ==
    {DocumentOptionsOf(n, NoScalars, Undefined, Undefined) :
        n \in {Undefined, Null, Str(<<" ">>), Str(NPdf), Str(PaddedName)}}
    \cup {DocumentOptionsOf(Undefined, p, Undefined, Undefined) : p \in ScalarProfiles}
    \cup {DocumentOptionsOf(Undefined, NoScalars, m, Undefined) : m \in CrudJsonInputs}
    \cup {DocumentOptionsOf(Undefined, NoScalars, Undefined, a) : a \in CrudJsonInputs}
    \cup {DocumentOptionsOf(Undefined, [NoScalars EXCEPT !.title = Str(<<"T", "2">>)],
                            Str(<<" ">>), Str(<<>>)),
          DocumentOptionsOf(Str(<<" ">>), [NoScalars EXCEPT !.title = Str(<<"T", "2">>)],
                            Undefined, Undefined),
          DocumentOptionsOf(Str(NPdf), CallerValue, Str(PairsText), Str(ObjectText))}

\* The ids a request can name: those of the stored rows, those of the rows
\* that were deleted, and one that was never given out
RequestIds == 1..nextId

StartOperation(kind, input, id) ==
    [op EXCEPT !.kind = kind, !.input = input, !.id = id, !.storeBefore = store,
               !.count = @ + 1]

Failed(o, error) == [o EXCEPT !.pc = "failed", !.error = error]

\* createDocument(options, false): refused with BadRequestException, or
\* prisma.document.create is called and inserts the row or throws
CreateDocumentOf(requests) ==
    /\ req.pc = "idle"
    /\ op.pc = "idle"
    /\ op.count < op.limit
    /\ nextId <= MaxDocs
    /\ \E options \in requests :
        LET o == StartOperation("create", options, 0)
            create == createDocumentData(options)
            called == [o EXCEPT !.effects = <<"prisma.document.create">>]
        IN  IF create.throws
            THEN /\ op' = Failed(o, create.error)
                 /\ UNCHANGED <<store, nextId>>
            ELSE \E outcome \in PersistenceOutcomes :
                    IF outcome.name = "none"
                    THEN /\ store' = [i \in (DOMAIN store) \cup {nextId} |->
                                        IF i = nextId THEN createdRow(create.data)
                                        ELSE store[i]]
                         /\ nextId' = nextId + 1
                         /\ op' = [called EXCEPT
                                    !.pc = "done", !.id = nextId,
                                    !.result = Returned(mapToDocumentType(
                                                    nextId, createdRow(create.data))),
                                    !.created = (nextId :> mapToDocumentType(
                                                    nextId, createdRow(create.data))) @@ @]
                    ELSE /\ op' = Failed([called EXCEPT !.thrown = outcome], outcome)
                         /\ UNCHANGED <<store, nextId>>
    /\ UNCHANGED <<openaiClient, openAiApiKey, req, cls, norm, seed,
                 prismaService, enrich>>

CreateDocument == CreateDocumentOf(CreateRequests)

\* updateDocument(options): refused with BadRequestException, or
\* prisma.document.update is called; it writes the fields of `data`, or throws
\* P2025 when the id has no row, or fails otherwise
UpdateDocumentOf(requests) ==
    /\ req.pc = "idle"
    /\ op.pc = "idle"
    /\ op.count < op.limit
    /\ \E options \in requests, id \in RequestIds :
        LET o == StartOperation("update", options, id)
            update == updateDocumentData(options)
            called == [o EXCEPT !.effects = <<"prisma.document.update">>]
        IN  IF update.throws
            THEN /\ op' = Failed(o, update.error)
                 /\ store' = store
            ELSE \E outcome \in PersistenceOutcomes :
                    IF outcome.name # "none"
                    THEN /\ op' = Failed([called EXCEPT !.thrown = outcome],
                                        persistenceError(outcome))
                         /\ store' = store
                    ELSE IF id \notin DOMAIN store
                    THEN /\ op' = Failed([called EXCEPT !.thrown = RecordNotFound],
                                        persistenceError(RecordNotFound))
                         /\ store' = store
                    ELSE /\ store' = [store EXCEPT ![id] = Spread(@, update.data)]
                         /\ op' = [called EXCEPT
                                    !.pc = "done",
                                    !.result = Returned(mapToDocumentType(
                                                    id, Spread(store[id], update.data)))]
    /\ UNCHANGED <<nextId, openaiClient, openAiApiKey, req, cls, norm, seed,
                 prismaService, enrich>>

UpdateDocument == UpdateDocumentOf(UpdateRequests)

\* The table after prisma.document.delete({where: {id}}) of a stored row
rowsAfterDelete_KeepsRow(id) == store

rowsAfterDelete(id) == [i \in (DOMAIN store) \ {id} |-> store[i]]

\* deleteDocument(id): prisma.document.delete removes the row, or throws P2025
\* when the id has no row, or fails otherwise
DeleteDocument ==
    /\ req.pc = "idle"
    /\ op.pc = "idle"
    /\ op.count < op.limit
    /\ \E id \in RequestIds, outcome \in PersistenceOutcomes :
        LET called == [StartOperation("delete", NoOptions, id) EXCEPT
                            !.effects = <<"prisma.document.delete">>]
        IN  IF outcome.name # "none"
            THEN /\ op' = Failed([called EXCEPT !.thrown = outcome],
                                persistenceError(outcome))
                 /\ store' = store
            ELSE IF id \notin DOMAIN store
            THEN /\ op' = Failed([called EXCEPT !.thrown = RecordNotFound],
                                persistenceError(RecordNotFound))
                 /\ store' = store
            ELSE /\ store' = rowsAfterDelete(id)
                 /\ op' = [called EXCEPT
                            !.pc = "done",
                            !.result = Returned(mapToDocumentType(id, store[id])),
                            !.deleted = @ \cup {id}]
    /\ UNCHANGED <<nextId, openaiClient, openAiApiKey, req, cls, norm, seed,
                 prismaService, enrich>>

\* getDocumentById(id): an id that is not a positive number is refused;
\* prisma.document.findUnique gives the row or null, or fails
GetDocumentById ==
    /\ req.pc = "idle"
    /\ op.pc = "idle"
    /\ op.count < op.limit
    /\ \E id \in RequestIds \cup {0}, outcome \in PersistenceOutcomes :
        LET o == StartOperation("get", NoOptions, id)
            called == [o EXCEPT !.effects = <<"prisma.document.findUnique">>]
        IN  IF id <= 0
            THEN op' = Failed(o, BadRequestException("Invalid document ID provided."))
            ELSE IF outcome.name # "none"
            THEN op' = Failed([called EXCEPT !.thrown = outcome], outcome)
            ELSE IF id \notin DOMAIN store
            THEN op' = [called EXCEPT !.pc = "done", !.result = Returned(Null),
                                     !.missed = @ \cup ({id} \cap op.deleted)]
            ELSE op' = [called EXCEPT
                            !.pc = "done",
                            !.result = Returned(mapToDocumentType(id, store[id])),
                            !.found = @ \cup {id}]
    /\ UNCHANGED <<store, nextId, openaiClient, openAiApiKey, req, cls, norm, seed,
                 prismaService, enrich>>

\* handleUpload begins, as one of the operations of the run
UploadCounted ==
    /\ req.pc = "idle"
    /\ op.pc = "idle"
    /\ op.count < op.limit
    /\ nextId <= MaxDocs
    /\ \E u \in UploadRequests : req' = StartUpload(u)
    /\ op' = [op EXCEPT !.count = @ + 1]
    /\ UNCHANGED <<store, nextId, openaiClient, openAiApiKey, cls, norm, seed,
                 prismaService, enrich>>

\* The create, update or delete has returned or thrown
Return ==
    /\ op.pc \in {"done", "failed"}
    /\ op' = [IdleOperation EXCEPT !.count = op.count, !.limit = op.limit,
                                   !.created = op.created, !.deleted = op.deleted,
                                   !.found = op.found, !.missed = op.missed]
    /\ UNCHANGED <<store, nextId, openaiClient, openAiApiKey, req, cls, norm, seed,
                 prismaService, enrich>>

\* The service with OPENAI_API_KEY unset (no step of the enrichment call is
\* ever enabled); the table holds a row that createDocument wrote
InitCrud ==
    /\ store = <<createdRow(createDocumentData(FullCreate).data)>>
    /\ nextId = 2
    /\ openaiClient = Null
    /\ openAiApiKey = Undefined
    /\ req = IdleRequest
    /\ cls = NotClassifying
    /\ op = IdleOperation
    /\ norm = IdleNormalizer
    /\ seed = NoSeed
    /\ prismaService = NoPrismaService
    /\ enrich = NoEnrichment

NextCrud ==
    \/ CreateDocument
    \/ UpdateDocument
    \/ DeleteDocument
    \/ Return
    \/ UploadCounted
    \/ ExtractText
    \/ EnrichSkipped
    \/ CreateFromUpload
    \/ Respond

SpecCrud == InitCrud /\ [][NextCrud]_vars

----------------------------------------------------------------------------
(* The life of a document: createDocument, getDocumentById and deleteDocument
   on a table that starts empty *)

\* The create requests: a file name with a title, and a padded file name
LifecycleCreates ==
    {DocumentOptionsOf(Str(NPdf), [NoScalars EXCEPT !.title = Str(<<"T", "u">>)],
                       Undefined, Undefined),
     DocumentOptionsOf(Str(PaddedName), NoScalars, Undefined, Undefined)}

InitLifecycle ==
    /\ store = <<>>
    /\ nextId = 1
    /\ openaiClient = Null
    /\ openAiApiKey = Undefined
    /\ req = IdleRequest
    /\ cls = NotClassifying
    /\ op = [IdleOperation EXCEPT !.limit = MaxRequests]
    /\ norm = IdleNormalizer
    /\ seed = NoSeed
    /\ prismaService = NoPrismaService
    /\ enrich = NoEnrichment

CreateForLifecycle == CreateDocumentOf(LifecycleCreates)

NextLifecycle ==
    \/ CreateForLifecycle
    \/ GetDocumentById
    \/ DeleteDocument
    \/ Return

SpecLifecycle == InitLifecycle /\ [][NextLifecycle]_vars

----------------------------------------------------------------------------
(* The metadata codec on its own: parseMetadata, parseAreaData and
   stringifyMetadata over texts and JSON objects *)

\* The decoder of a field
decodeField(label, value) ==
    IF label = "metadata" THEN parseMetadata(value) ELSE parseAreaData(value)

\* Texts handed to the decoders
CodecInputs ==
    JsonInputs \cup {
        Str(<<"\t", "\n">>),
        Str(<<" ", " ", "\r">>),
        Str(<<"{", "}">>),
        Str(<<" ", "{", "\"", "k", "\"", " ", ":", " ", "1", "}", " ">>),
        Str(<<"n", "u", "l">>),
        Str(<<"[", "1", ",", "]">>),
        Str(<<"\"", "a", "\"">>),
        Str(<<"t", "r", "u", "e">>),
        Str(<<"{", "\"", "k", "\"", ":", "1", "}", "x">>),
        Str(<<"0", "1">>) }

\* JSON objects as the table holds them: empty, flat, with characters that
\* JSON.stringify escapes, nested, and the metadata objects handleUpload stores
CodecObjects == {
    Obj(<<>>),
    Obj([k |-> Num(1)]),
    Obj([c |-> Str(<<"X">>)]),
    Obj([k |-> Str(<<"a", "\"", "b">>)]),
    Obj([k |-> Str(<<"\\", "\n", " ", "\t">>), c |-> Str(<<>>)]),
    Obj([k |-> Obj([n |-> Null, b |-> Bool(TRUE)]), c |-> Bool(FALSE)]),
    Obj([k |-> Arr(<<Num(10), Str(<<"[">>), Arr(<<>>), Obj(<<>>)>>)]),
    Obj([value |-> Arr(<<AiPair, AiPair>>)]),
    mergeMetadata(Undefined,
                  provenance(BriefPdf, Undefined, <<"l", "a", "w", " ", "1">>, Null)),
    mergeMetadata(Num(0), provenance(PageHtm, Str(TextPlain), <<>>, Null)) }
    \cup {mergeMetadata(Obj([k |-> Num(1)]),
                        provenance(BriefPdf, Str(ApplicationPdf), <<"l", "a", "w">>,
                                   mapAiExtraction(p))) : p \in AiPayloads}

\* One call of a decoder, or one object to serialize and decode again
InitCodec ==
    /\ store = <<ExistingDocument>>
    /\ nextId = 2
    /\ openaiClient = Null
    /\ openAiApiKey = Undefined
    /\ req = IdleRequest
    /\ cls = NotClassifying
    /\ norm = IdleNormalizer
    /\ seed = NoSeed
    /\ prismaService = NoPrismaService
    /\ enrich = NoEnrichment
    /\ \E label \in JsonFields :
        \/ \E x \in CodecInputs :
            op = [IdleOperation EXCEPT !.pc = "pending", !.kind = "decode",
                                       !.input = [label |-> label, value |-> x]]
        \/ \E o \in CodecObjects :
            op = [IdleOperation EXCEPT !.pc = "pending", !.kind = "roundTrip",
                                       !.input = [label |-> label, value |-> o]]

\* parseMetadata / parseAreaData on a caller's text
Decode ==
    /\ op.pc = "pending"
    /\ op.kind = "decode"
    /\ op' = [op EXCEPT !.pc = "decoded",
                        !.result = decodeField(op.input.label, op.input.value)]
    /\ UNCHANGED <<store, nextId, openaiClient, openAiApiKey, req, cls, norm, seed,
                 prismaService, enrich>>

\* mapToDocumentType exposes a stored value as text
Stringify ==
    /\ op.pc = "pending"
    /\ op.kind = "roundTrip"
    /\ op' = [op EXCEPT !.pc = "stringified", !.text = stringifyMetadata(op.input.value)]
    /\ UNCHANGED <<store, nextId, openaiClient, openAiApiKey, req, cls, norm, seed,
                 prismaService, enrich>>

\* The exposed text is decoded again
DecodeStringified ==
    /\ op.pc = "stringified"
    /\ op' = [op EXCEPT !.pc = "decoded", !.result = decodeField(op.input.label, op.text)]
    /\ UNCHANGED <<store, nextId, openaiClient, openAiApiKey, req, cls, norm, seed,
                 prismaService, enrich>>

NextCodec ==
    \/ Decode
    \/ Stringify
    \/ DecodeStringified

SpecCodec == InitCodec /\ [][NextCodec]_vars

----------------------------------------------------------------------------
(* The metadata normalizer: the parse-metadata script and the two service
   methods it calls, parseDocumentMetadata and parseAllDocumentsMetadata *)

\* The number of runs of the script
MaxRuns == 2

\* One {key, value} pair of the legacy representation
KeyValue(key, value) == Obj([key |-> Str(key), value |-> Str(value)])

\* An element of the legacy representation: an object of exactly a string key
\* and a string value
IsKeyValuePair(x) ==
    /\ x.t = "object"
    /\ DOMAIN x.v = {"key", "value"}
    /\ x.v.key.t = "string"
    /\ x.v.value.t = "string"

\* A stored value in the legacy representation: an array of pairs
IsKeyValuePairs(x) ==
    /\ x.t = "array"
    /\ \A i \in DOMAIN x.v : IsKeyValuePair(x.v[i])

\* A text of decimal digits reads as a number
IsNumberText(text) == text # <<>> /\ \A i \in DOMAIN text : IsDigit(text[i])

\* The value of a pair: a number, a boolean or null when the text reads as one,
\* otherwise the text itself
coerceValue_KeepsText(text) == Str(text)

coerceValue(text) ==
    CASE text = <<"t", "r", "u", "e">> -> Bool(TRUE)
      [] text = <<"f", "a", "l", "s", "e">> -> Bool(FALSE)
      [] text = <<"n", "u", "l", "l">> -> Null
      [] IsNumberText(text) -> ParseDigits(text, 1, 0).value
      [] OTHER -> Str(text)

\* The pairs folded into the key map of one object, in order: a later pair
\* overwrites an earlier one of the same key
RECURSIVE convertKeyValuePairs(_)
convertKeyValuePairs(pairs) ==
    IF pairs = <<>> THEN <<>>
    ELSE LET last == pairs[Len(pairs)].v
         IN  Spread(convertKeyValuePairs(SubSeq(pairs, 1, Len(pairs) - 1)),
                    NameOf(last.key.v) :> coerceValue(last.value.v))

\* One field of a record: an array of pairs is converted, which is a change;
\* any other value is left as it is
normalizeField_KeepsPairs(value) ==
    [changed |-> IsKeyValuePairs(value), before |-> value, after |-> value]

normalizeField(value) ==
    IF IsKeyValuePairs(value)
    THEN [changed |-> TRUE, before |-> value, after |-> Obj(convertKeyValuePairs(value.v))]
    ELSE [changed |-> FALSE, before |-> value, after |-> value]

\* The report of one record
metadataChangeReport(documentId, row) ==
    LET areaData == normalizeField(row.areaData)
        metadata == normalizeField(row.metadata)
    IN  [documentId |-> documentId, fileName |-> row.fileName,
         hasChanges |-> areaData.changed \/ metadata.changed,
         changes |-> [areaData |-> areaData, metadata |-> metadata],
         error |-> "none"]

\* The row a live run writes for a report
normalizedRow(row, report) ==
    [row EXCEPT !.areaData = report.changes.areaData.after,
                !.metadata = report.changes.metadata.after]

\* The summary of a batch
batchSummary(reports) ==
    [processedCount |-> Len(reports),
     changedCount |-> Cardinality({i \in DOMAIN reports : reports[i].hasChanges}),
     failedCount |-> Cardinality({i \in DOMAIN reports : reports[i].error # "none"}),
     results |-> reports]

\* The two ways a filter of two flags selects: a record matching either flag,
\* or a record matching both
FilterReadings == {"either", "both"}

\* The records a batch processes: those whose flagged fields are array-shaped
matchesFilter(row, filter, reading) ==
    LET flagged == {f \in JsonFields :
                        \/ f = "areaData" /\ filter.hasStringAreaData
                        \/ f = "metadata" /\ filter.hasStringMetadata}
    IN  \/ flagged = {}
        \/ reading = "either" /\ \E f \in flagged : row[f].t = "array"
        \/ reading = "both" /\ \A f \in flagged : row[f].t = "array"

RECURSIVE IdsInOrder(_)
IdsInOrder(ids) ==
    IF ids = {} THEN <<>>
    ELSE LET first == CHOOSE i \in ids : \A j \in ids : i <= j
         IN  <<first>> \o IdsInOrder(ids \ {first})

selectDocuments(filter, reading) ==
    IdsInOrder({i \in DOMAIN store : matchesFilter(store[i], filter, reading)})

\* MetadataParserScript.process: a document id selects the single entry point,
\* no id (or 0) the batch; the flag of the script is handed to the service
processCall_IgnoresDryRun(documentId, dryRun) ==
    IF ~IsFalsy(documentId)
    THEN [method |-> "parseDocumentMetadata", documentId |-> documentId, dryRun |-> FALSE,
          filter |-> [hasStringAreaData |-> FALSE, hasStringMetadata |-> FALSE]]
    ELSE [method |-> "parseAllDocumentsMetadata", documentId |-> Undefined,
          dryRun |-> FALSE,
          filter |-> [hasStringAreaData |-> TRUE, hasStringMetadata |-> TRUE]]

processCall(documentId, dryRun) ==
    IF ~IsFalsy(documentId)
    THEN [method |-> "parseDocumentMetadata", documentId |-> documentId, dryRun |-> dryRun,
          filter |-> [hasStringAreaData |-> FALSE, hasStringMetadata |-> FALSE]]
    ELSE [method |-> "parseAllDocumentsMetadata", documentId |-> Undefined,
          dryRun |-> dryRun,
          filter |-> [hasStringAreaData |-> TRUE, hasStringMetadata |-> TRUE]]

\* The records still to process after the persistence call of the first one
\* failed: the failure does not end the run
remainingAfterFailure_Aborts(queue) == <<>>

remainingAfterFailure(queue) == Tail(queue)

\* The values of --document-id: absent, 0, or the id of a stored row
ScriptIds == {Undefined, Num(0)} \cup {Num(i) : i \in DOMAIN store}

\* Stored values of the two fields: pairs, pairs whose values read as a number,
\* a boolean and null (one key given twice), an object, an array of no pairs
CourtPairs == Arr(<<KeyValue(<<"c">>, <<"X">>)>>)
TypedPairs ==
    Arr(<<KeyValue(<<"n">>, <<"1", "2">>), KeyValue(<<"b">>, <<"t", "r", "u", "e">>),
          KeyValue(<<"k">>, <<"n", "u", "l", "l">>), KeyValue(<<"n">>, <<"7">>)>>)
NoPairs == Arr(<<Num(1)>>)

\* The row createDocument writes for a metadata value and an areaData value
\* sent as JSON text
storedRow(metadata, areaData) ==
    createdRow(createDocumentData(
        DocumentOptionsOf(Str(NPdf), NoScalars,
                          IF metadata.t = "undefined" THEN Undefined
                          ELSE Str(JSONstringify(metadata)),
                          IF areaData.t = "undefined" THEN Undefined
                          ELSE Str(JSONstringify(areaData)))).data)

LegacyRows ==
    {storedRow(Obj([k |-> Num(1)]), CourtPairs),
     storedRow(TypedPairs, Undefined),
     storedRow(CourtPairs, TypedPairs),
     storedRow(Obj([k |-> Num(1)]), Obj([c |-> Str(<<"X">>)])),
     storedRow(NoPairs, Undefined),
     storedRow(NoPairs, CourtPairs)}

InitNormalize ==
    /\ store \in {<<first, second>> : first \in LegacyRows, second \in LegacyRows}
    /\ nextId = 3
    /\ openaiClient = Null
    /\ openAiApiKey = Undefined
    /\ req = IdleRequest
    /\ cls = NotClassifying
    /\ op = IdleOperation
    /\ norm = IdleNormalizer
    /\ seed = NoSeed
    /\ prismaService = NoPrismaService
    /\ enrich = NoEnrichment

\* new MetadataParserScript(dryRun).process(documentId) begins: one record,
\* or the records the batch selects
startedRun(documentId, dryRun, reading) ==
    LET call == processCall(documentId, dryRun)
    IN  [norm EXCEPT
            !.pc = "running", !.mode = call.method, !.dryRun = dryRun,
            !.dryRunArgument = call.dryRun,
            !.queue = IF call.method = "parseDocumentMetadata"
                      THEN <<call.documentId.v>>
                      ELSE selectDocuments(call.filter, reading),
            !.selected = IF call.method = "parseDocumentMetadata"
                         THEN <<call.documentId.v>>
                         ELSE selectDocuments(call.filter, reading),
            !.reports = <<>>, !.writes = <<>>, !.storeBefore = store,
            !.runs = @ + 1, !.summary = batchSummary(<<>>)]

\* The script starts a run: one record, or the records the batch selects
Process ==
    /\ req.pc = "idle"
    /\ op.pc = "idle"
    /\ norm.pc \in {"idle", "done"}
    /\ norm.runs < MaxRuns
    /\ \E documentId \in ScriptIds, dryRun \in BOOLEAN, reading \in FilterReadings :
        norm' = startedRun(documentId, dryRun, reading)
    /\ UNCHANGED <<store, nextId, openaiClient, openAiApiKey, req, cls, op, seed,
                 prismaService, enrich>>

\* parseDocumentMetadata on the next record of the run: the report is computed;
\* a live run persists a changed record, and a failure of the persistence call
\* is recorded in the report of the record
ParseDocumentMetadata ==
    /\ norm.pc = "running"
    /\ norm.queue # <<>>
    /\ LET documentId == Head(norm.queue)
           row == store[documentId]
           report == metadataChangeReport(documentId, row)
       IN  IF report.hasChanges /\ ~norm.dryRunArgument
           THEN \E outcome \in PersistenceOutcomes :
                IF outcome.name = "none"
                THEN /\ store' = [store EXCEPT ![documentId] = normalizedRow(row, report)]
                     /\ norm' = [norm EXCEPT
                            !.queue = Tail(@), !.reports = Append(@, report),
                            !.writes = Append(@, documentId),
                            !.converted = (documentId :>
                                            [row |-> normalizedRow(row, report),
                                             run |-> norm.runs]) @@ @]
                ELSE /\ store' = store
                     /\ norm' = [norm EXCEPT
                            !.queue = remainingAfterFailure(@),
                            !.reports = Append(@, [report EXCEPT !.error = outcome.name]),
                            !.writes = Append(@, documentId)]
           ELSE /\ store' = store
                /\ norm' = [norm EXCEPT !.queue = Tail(@), !.reports = Append(@, report)]
    /\ UNCHANGED <<nextId, openaiClient, openAiApiKey, req, cls, op, seed,
                 prismaService, enrich>>

\* The run is over: the script prints the report or the summary
ProcessComplete ==
    /\ norm.pc = "running"
    /\ norm.queue = <<>>
    /\ norm' = [norm EXCEPT !.pc = "done", !.summary = batchSummary(norm.reports)]
    /\ UNCHANGED <<store, nextId, openaiClient, openAiApiKey, req, cls, op, seed,
                 prismaService, enrich>>

NextNormalize ==
    \/ Process
    \/ ParseDocumentMetadata
    \/ ProcessComplete

SpecNormalize == InitNormalize /\ [][NextNormalize]_vars

----------------------------------------------------------------------------
(* The parse-metadata command line: parseArgs and main *)

\* parseInt(text, 10): leading white space is skipped, then the leading
\* digits are read; NaN when there is none (no sign is modelled)
parseInt(text) ==
    LET s == TrimStart(text)
    IN  IF s = <<>> \/ ~IsDigit(Head(s)) THEN [nan |-> TRUE, value |-> 0]
        ELSE [nan |-> FALSE, value |-> ParseDigits(s, 1, 0).value.v]

\* parseArgs: --document-id=<text> sets documentId when the text parses as a
\* number, --dry-run and --help set their flags
parseArgs(args) ==
    [documentId |-> IF args.documentId.t = "string" /\ ~parseInt(args.documentId.v).nan
                    THEN Num(parseInt(args.documentId.v).value)
                    ELSE Undefined,
     dryRun |-> args.dryRun, help |-> args.help]

\* The command lines: --document-id absent, or given with the id of a stored
\* row, with 0, with a text that is not a number, with an empty text or with
\* a number followed by other characters
CommandLines ==
    [documentId : {Undefined, Str(<<"1">>), Str(<<"2">>), Str(<<"0">>), Str(<<"a", "b">>),
                   Str(<<>>), Str(<<"1", "x">>)},
     dryRun : BOOLEAN, help : BOOLEAN]

\* main: --help prints the help text and does nothing else; otherwise the
\* script is run with the parsed id and flag
Main ==
    /\ req.pc = "idle"
    /\ op.pc = "idle"
    /\ norm.pc \in {"idle", "done"}
    /\ norm.runs < MaxRuns
    /\ \E args \in CommandLines, reading \in FilterReadings :
        LET parsed == parseArgs(args)
        IN  norm' = IF parsed.help
                    THEN [norm EXCEPT
                            !.pc = "done", !.mode = "showHelp", !.dryRun = parsed.dryRun,
                            !.dryRunArgument = parsed.dryRun,
                            !.queue = <<>>, !.selected = <<>>, !.reports = <<>>,
                            !.writes = <<>>, !.storeBefore = store, !.runs = @ + 1,
                            !.summary = batchSummary(<<>>), !.args = args]
                    ELSE [startedRun(parsed.documentId, parsed.dryRun, reading) EXCEPT
                            !.args = args]
    /\ UNCHANGED <<store, nextId, openaiClient, openAiApiKey, req, cls, op, seed,
                 prismaService, enrich>>

NextScript ==
    \/ Main
    \/ ParseDocumentMetadata
    \/ ProcessComplete

SpecScript == InitNormalize /\ [][NextScript]_vars

----------------------------------------------------------------------------
(* The normalizer beside another writer: parseDocumentMetadata reads the
   record and then updates it, two persistence calls with no transaction
   around them, and updateDocument commits between them *)

\* The row the conversion is computed from: the one that was read
rowToConvert_ReadAgain(read, current) == current

rowToConvert(read, current) == read

\* The update a live run issues: the converted fields, computed from the row
\* it read
normalizerUpdate(report) ==
    [f \in {g \in JsonFields : report.changes[g].changed} |-> report.changes[f].after]

\* The updates of the other writer: a new areaData object, new areaData pairs,
\* a new metadata object, a title
RaceUpdates ==
    {DocumentOptionsOf(Undefined, NoScalars, Undefined, Str(ObjectText)),
     DocumentOptionsOf(Undefined, NoScalars, Undefined, Str(PairsText)),
     DocumentOptionsOf(Undefined, NoScalars, Str(ObjectText), Undefined),
     DocumentOptionsOf(Undefined, [NoScalars EXCEPT !.title = Str(<<"T", "2">>)],
                       Undefined, Undefined)}

InitRace ==
    /\ store \in {<<row>> : row \in LegacyRows}
    /\ nextId = 2
    /\ openaiClient = Null
    /\ openAiApiKey = Undefined
    /\ req = IdleRequest
    /\ cls = NotClassifying
    /\ op = IdleOperation
    /\ norm = IdleNormalizer
    /\ seed = NoSeed
    /\ prismaService = NoPrismaService
    /\ enrich = NoEnrichment

\* parseDocumentMetadata reads the next record of the run
ReadDocument ==
    /\ norm.pc = "running"
    /\ norm.queue # <<>>
    /\ norm' = [norm EXCEPT !.pc = "read", !.read = store[Head(norm.queue)]]
    /\ UNCHANGED <<store, nextId, openaiClient, openAiApiKey, req, cls, op, seed,
                 prismaService, enrich>>

\* parseDocumentMetadata computes the report and, in a live run on a changed
\* record, issues the update
WriteDocument ==
    /\ norm.pc = "read"
    /\ LET documentId == Head(norm.queue)
           report == metadataChangeReport(documentId,
                                          rowToConvert(norm.read, store[documentId]))
       IN  IF report.hasChanges /\ ~norm.dryRunArgument
           THEN \E outcome \in PersistenceOutcomes :
                IF outcome.name = "none"
                THEN /\ store' = [store EXCEPT
                                    ![documentId] = Spread(@, normalizerUpdate(report))]
                     /\ norm' = [norm EXCEPT
                            !.pc = "running",
                            !.queue = Tail(@), !.reports = Append(@, report),
                            !.writes = Append(@, documentId),
                            !.overwritten = store[documentId],
                            !.converted = (documentId :>
                                            [row |-> Spread(store[documentId],
                                                            normalizerUpdate(report)),
                                             run |-> norm.runs]) @@ @]
                ELSE /\ store' = store
                     /\ norm' = [norm EXCEPT
                            !.pc = "running",
                            !.queue = remainingAfterFailure(@),
                            !.reports = Append(@, [report EXCEPT !.error = outcome.name]),
                            !.writes = Append(@, documentId)]
           ELSE /\ store' = store
                /\ norm' = [norm EXCEPT !.pc = "running", !.queue = Tail(@),
                                        !.reports = Append(@, report)]
    /\ UNCHANGED <<nextId, openaiClient, openAiApiKey, req, cls, op, seed,
                 prismaService, enrich>>

\* updateDocument of another request commits after the read of the record
UpdateAfterRead ==
    /\ norm.pc = "read"
    /\ UpdateDocumentOf(RaceUpdates)

NextRace ==
    \/ Process
    \/ ReadDocument
    \/ WriteDocument
    \/ ProcessComplete
    \/ UpdateAfterRead
    \/ Return

SpecRace == InitRace /\ [][NextRace]_vars

----------------------------------------------------------------------------
(* The seed script: main and doSeed of prisma/seed.ts *)

\* The records of data/seed-documents.json: a record with a file name, two
\* records, a record without a file name
SeedDocument(fileName, title) ==
    [ExistingDocument EXCEPT !.fileName = fileName, !.title = Str(title)]

SeedFiles ==
    {<<SeedDocument(Str(<<"o", "l", "d", ".", "p", "d", "f">>), <<"S", "1">>)>>,
     <<SeedDocument(Str(<<"o", "l", "d", ".", "p", "d", "f">>), <<"S", "1">>),
       SeedDocument(Str(<<"s", ".", "p", "d", "f">>), <<"S", "2">>)>>,
     <<SeedDocument(Undefined, <<"S", "3">>)>>}

\* What fs.existsSync, readFileSync and JSON.parse give: a JSON array, a JSON
\* text that is no array, a text that is not JSON, an SQL file, an empty SQL
\* file, no file
SeedSources == {"json", "jsonNotArray", "jsonInvalid", "sql", "sqlEmpty", "none"}

\* What is typed at the prompt
Answers ==
    {<<"y", "e", "s">>, <<"Y", "E", "S">>, <<" ", "y", "e", "s", "\n">>, <<"y">>,
     <<"Y">>, <<>>, <<" ">>, <<"n", "o">>, <<"n">>, <<"y", "e", "s", "s">>}

\* The name the upsert loop gives a record without a file name
RandomName == Str(<<"r", "a", "n", "d", "o", "m", "-", "d", "o", "c", ".", "p", "d", "f">>)

\* The answers that let the seed run: yes or y in any case, or nothing but
\* white space
answerProceeds(answer) ==
    \/ ToLowerCase(Trim(answer)) = <<"y", "e", "s">>
    \/ ToLowerCase(Trim(answer)) = <<"y">>
    \/ Trim(answer) = <<>>

\* prisma.document.create: the row gets the next id
inserted(table, row) ==
    [rows |-> [i \in (DOMAIN table.rows) \cup {table.nextId} |->
                    IF i = table.nextId THEN row ELSE table.rows[i]],
     nextId |-> table.nextId + 1,
     calls |-> Append(table.calls, "prisma.document.create")]

\* prisma.document.findFirst({where: {fileName}}): the id of a row of that
\* file name, 0 when there is none
findFirst(table, fileName) ==
    IF \E i \in DOMAIN table.rows : table.rows[i].fileName = fileName
    THEN CHOOSE i \in DOMAIN table.rows :
            /\ table.rows[i].fileName = fileName
            /\ \A j \in DOMAIN table.rows : table.rows[j].fileName = fileName => i <= j
    ELSE 0

\* The upsert loop over the records from position i; failing holds the
\* positions whose create or update throws
RECURSIVE upsertFrom(_, _, _, _)
upsertFrom(table, docs, failing, i) ==
    IF i > Len(docs) THEN table
    ELSE LET doc == docs[i]
             called(name) == [table EXCEPT !.calls = Append(@, name)]
             next ==
                IF IsFalsy(doc.fileName)
                THEN IF i \in failing THEN called("prisma.document.create")
                     ELSE inserted(table, [doc EXCEPT !.fileName = RandomName])
                ELSE IF findFirst(table, doc.fileName) # 0
                THEN IF i \in failing THEN called("prisma.document.update")
                     ELSE [table EXCEPT
                            !.rows[findFirst(table, doc.fileName)] = doc,
                            !.calls = Append(@, "prisma.document.update")]
                ELSE IF i \in failing THEN called("prisma.document.create")
                     ELSE inserted(table, doc)
         IN  upsertFrom(next, docs, failing, i + 1)

\* The per-record create loop; a record without a file name is refused by the
\* database
RECURSIVE createFrom(_, _, _, _)
createFrom(table, docs, failing, i) ==
    IF i > Len(docs) THEN table
    ELSE createFrom(IF i \in failing \/ IsFalsy(docs[i].fileName)
                    THEN [table EXCEPT !.calls = Append(@, "prisma.document.create")]
                    ELSE inserted(table, docs[i]),
                    docs, failing, i + 1)

\* The seed script is started: the seed file, the flags, the terminal and the
\* table it finds
InitSeed ==
    /\ \E file \in SeedFiles :
        /\ store \in {<<>>, <<ExistingDocument>>}
        /\ nextId = Len(store) + 1
        /\ Len(store) + Len(file) <= MaxDocs
        /\ \E source \in SeedSources, force \in BOOLEAN, dryRun \in BOOLEAN,
              upsertMode \in BOOLEAN, isTTY \in BOOLEAN :
            seed = [NoSeed EXCEPT !.pc = "start", !.source = source, !.force = force,
                                   !.dryRun = dryRun, !.upsertMode = upsertMode,
                                   !.isTTY = isTTY, !.storeBefore = store,
                                   !.seedData = file]
    /\ openaiClient = Null
    /\ openAiApiKey = Undefined
    /\ req = IdleRequest
    /\ cls = NotClassifying
    /\ op = IdleOperation
    /\ norm = IdleNormalizer
    /\ prismaService = NoPrismaService
    /\ enrich = NoEnrichment

Exited(s, code) == [s EXCEPT !.pc = "exited", !.exitCode = code]

\* main loads the seed file: invalid JSON, an empty SQL file or no file at all
\* end the process with code 1
LoadSeedFile ==
    /\ seed.pc = "start"
    /\ seed' = IF seed.source \in {"jsonInvalid", "sqlEmpty", "none"}
               THEN Exited(seed, 1)
               ELSE [seed EXCEPT !.pc = "loaded"]
    /\ UNCHANGED <<store, nextId, openaiClient, openAiApiKey, req, cls, op, norm,
                   prismaService, enrich>>

\* main after the flags are read: --dry-run and --force go to doSeed, an
\* interactive terminal is asked, any other shell ends with code 1
Confirm ==
    /\ seed.pc = "loaded"
    /\ seed' = IF seed.dryRun \/ seed.force THEN [seed EXCEPT !.pc = "seeding"]
               ELSE IF seed.isTTY THEN [seed EXCEPT !.pc = "prompt"]
               ELSE Exited([seed EXCEPT !.disconnected = TRUE], 1)
    /\ UNCHANGED <<store, nextId, openaiClient, openAiApiKey, req, cls, op, norm,
                   prismaService, enrich>>

\* The answer to the prompt is read
ReadAnswer ==
    /\ seed.pc = "prompt"
    /\ \E answer \in Answers :
        seed' = IF answerProceeds(answer)
                THEN [seed EXCEPT !.pc = "seeding", !.asked = TRUE, !.answer = answer]
                ELSE Exited([seed EXCEPT !.asked = TRUE, !.answer = answer,
                                         !.disconnected = TRUE], 0)
    /\ UNCHANGED <<store, nextId, openaiClient, openAiApiKey, req, cls, op, norm,
                   prismaService, enrich>>

\* doSeed: the SQL is executed, or the records are upserted, or inserted in
\* bulk and, when that fails, one by one; --dry-run changes nothing
DoSeed ==
    /\ seed.pc = "seeding"
    /\ LET table == [rows |-> store, nextId |-> nextId, calls |-> <<>>]
           finished(t, code) ==
                /\ store' = t.rows
                /\ nextId' = t.nextId
                /\ seed' = [seed EXCEPT !.pc = "done", !.calls = t.calls,
                                        !.exitCode = code, !.disconnected = TRUE]
       IN  IF seed.source = "sql"
           THEN IF seed.dryRun THEN finished(table, -1)
                ELSE \/ finished([createFrom(table, seed.seedData, {}, 1) EXCEPT
                                    !.calls = <<"prisma.$executeRawUnsafe">>], -1)
                     \/ finished([table EXCEPT !.calls = <<"prisma.$executeRawUnsafe">>], 1)
           ELSE IF seed.source = "jsonNotArray"
           THEN /\ seed' = Exited(seed, 1)
                /\ UNCHANGED <<store, nextId>>
           ELSE IF seed.dryRun THEN finished(table, -1)
           ELSE IF seed.upsertMode
           THEN \E failing \in SUBSET (DOMAIN seed.seedData) :
                    finished(upsertFrom(table, seed.seedData, failing, 1), -1)
           ELSE \/ /\ \A i \in DOMAIN seed.seedData : ~IsFalsy(seed.seedData[i].fileName)
                   /\ finished([createFrom(table, seed.seedData, {}, 1) EXCEPT
                                    !.calls = <<"prisma.document.createMany">>], -1)
                \/ \E failing \in SUBSET (DOMAIN seed.seedData) :
                    finished(createFrom([table EXCEPT
                                            !.calls = <<"prisma.document.createMany">>],
                                        seed.seedData, failing, 1), -1)
    /\ UNCHANGED <<openaiClient, openAiApiKey, req, cls, op, norm, prismaService, enrich>>

NextSeed ==
    \/ LoadSeedFile
    \/ Confirm
    \/ ReadAnswer
    \/ DoSeed

SpecSeed == InitSeed /\ [][NextSeed]_vars

----------------------------------------------------------------------------
(* The extraction prompt: buildExtractionPrompt on its own *)

\* The number of characters of the text that the prompt embeds
ExcerptLength == 6000

\* The excerpt of the prompt, with the test >= in place of >
excerptOf_FromLimit(rawText) ==
    IF Len(rawText) >= ExcerptLength
    THEN SubSeq(rawText, 1, ExcerptLength) \o <<".", ".", ".">>
    ELSE rawText

\* The excerpt of the prompt: the text, or its first 6000 characters and "..."
excerptOf(rawText) ==
    IF Len(rawText) > ExcerptLength
    THEN SubSeq(rawText, 1, ExcerptLength) \o <<".", ".", ".">>
    ELSE rawText

\* buildExtractionPrompt: the instructions, then the excerpt between two lines
\* of three quotes, joined by line feeds
buildExtractionPrompt(rawText) ==
    [instructions |-> "Extract structured metadata for a legal document.",
     lines |-> <<"Document excerpt:", "\"\"\"", excerptOf(rawText), "\"\"\"">>]

\* Extracted texts: every length near 0 and near 6000 and one far above, made
\* of letters, of dots, of letters with "..." at the end, and of letters with
\* "..." right after the 6000th character
PromptLengths == (0..8) \cup (5992..6008) \cup {12000}

PromptTexts ==
    {[i \in 1..n |-> "a"] : n \in PromptLengths}
    \cup {[i \in 1..n |-> "."] : n \in PromptLengths}
    \cup {[i \in 1..n |-> IF i > n - 3 THEN "." ELSE "a"] : n \in PromptLengths}
    \cup {[i \in 1..n |-> IF i \in (ExcerptLength + 1)..(ExcerptLength + 3) THEN "." ELSE "a"] :
            n \in PromptLengths}

InitPrompt ==
    /\ store = <<ExistingDocument>>
    /\ nextId = 2
    /\ openaiClient = Null
    /\ openAiApiKey = Undefined
    /\ req = IdleRequest
    /\ cls = NotClassifying
    /\ norm = IdleNormalizer
    /\ seed = NoSeed
    /\ prismaService = NoPrismaService
    /\ enrich = NoEnrichment
    /\ \E rawText \in PromptTexts :
        op = [IdleOperation EXCEPT !.pc = "pending", !.kind = "buildExtractionPrompt",
                                   !.input = rawText]

\* The prompt is built for the text
BuildExtractionPrompt ==
    /\ op.pc = "pending"
    /\ op.kind = "buildExtractionPrompt"
    /\ op' = [op EXCEPT !.pc = "built", !.result = buildExtractionPrompt(op.input)]
    /\ UNCHANGED <<store, nextId, openaiClient, openAiApiKey, req, cls, norm, seed,
                   prismaService, enrich>>

NextPrompt == BuildExtractionPrompt

SpecPrompt == InitPrompt /\ [][NextPrompt]_vars

----------------------------------------------------------------------------
(* Properties of upload-create *)

ProvenanceKeys == {"originalFileName", "mimeType", "rawText", "aiExtraction"}

\* The row the finished upload created
Persisted == store[req.id]

\* What enrichment produced for a field: null when there was no result
AiProduced(f) ==
    IF req.aiEnrichment.t = "null" THEN Null ELSE req.aiEnrichment.fields[f]

\* The value the caller's metadata text decodes to; undefined when the caller
\* gave none (absent, null, or a blank string)
CallerMetadata ==
    IF req.options.metadata.t = "string" /\ IsValidJson(req.options.metadata.v)
    THEN JSONparse(req.options.metadata.v) ELSE Undefined

NoCallerMetadata ==
    \/ req.options.metadata.t \in {"undefined", "null"}
    \/ req.options.metadata.t = "string"
       /\ \A i \in DOMAIN req.options.metadata.v : IsWhitespace(req.options.metadata.v[i])

\* C1: in upload-create, for each scalar field a non-null caller value is what
\* is persisted; a field the caller did not supply is persisted as the AI value,
\* and as null when enrichment produced none (or no result at all).
C1_ScalarPrecedence ==
    req.pc = "done" =>
        \A f \in ScalarFields :
            /\ ~IsNullish(req.options[f]) => Persisted[f] = req.options[f]
            /\ req.options[f] = Undefined /\ ~IsNullish(AiProduced(f))
                    => Persisted[f] = AiProduced(f)
            /\ req.options[f] = Undefined /\ IsNullish(AiProduced(f))
                    => Persisted[f] = Null

C1_Witness ==
    /\ req.pc = "done"
    /\ req.options.title = CallerValue.title
    /\ AiProduced("title") = Str(<<"T", "a">>)
    /\ Persisted.title = CallerValue.title
    /\ req.options.court = Undefined
    /\ Persisted.court = Str(<<"C", "a">>)
    /\ req.options.caseType = Undefined
    /\ Persisted.caseType = Str(<<"K", "a">>)

\* C2: in upload-create, a scalar field the caller supplied as null is
\* persisted as null even when enrichment produced a value for it.
C2_ExplicitNullWins ==
    req.pc = "done" =>
        \A f \in ScalarFields :
            req.options[f] = Null /\ ~IsNullish(AiProduced(f)) => Persisted[f] = Null

\* C3: in upload-create, the persisted areaData is the caller's decoded areaData
\* whenever the caller supplied one (null for an explicit null), otherwise the
\* AI-derived areaData, otherwise null.
C3_AreaDataOverride ==
    req.pc = "done" =>
        /\ req.options.areaData = Null => Persisted.areaData = Null
        /\ req.options.areaData.t = "string" /\ IsValidJson(req.options.areaData.v)
                => Persisted.areaData = JSONparse(req.options.areaData.v)
        /\ req.options.areaData = Undefined
                => Persisted.areaData =
                        IF IsNullish(AiProduced("areaData")) THEN Null
                        ELSE AiProduced("areaData")

C5_MetadataWrapping ==
    req.pc = "done" =>
        LET metadata == Persisted.metadata
        IN  /\ CallerMetadata.t \in {"array", "number", "string", "boolean", "null"}
                => /\ DOMAIN metadata.v = ProvenanceKeys \cup {"value"}
                   /\ metadata.v.value = CallerMetadata
            /\ NoCallerMetadata => DOMAIN metadata.v = ProvenanceKeys

C5_Witness ==
    /\ req.pc = "done"
    /\ CallerMetadata = Num(0)
    /\ Persisted.metadata.v.value = Num(0)
    /\ Persisted.metadata.v.originalFileName = Str(req.file.filename)

----------------------------------------------------------------------------
(* Properties of the classifier *)

\* Every character of the name is white space (the empty name included)
NameIsBlank(name) == \A i \in DOMAIN name : IsWhitespace(name[i])

\* The lower-cased MIME type contains the word
MimeMentions(mimetype, word) ==
    /\ mimetype.t = "string"
    /\ \E i \in 1..Len(mimetype.v) :
        /\ i + Len(word) - 1 <= Len(mimetype.v)
        /\ \A j \in 1..Len(word) : LowerChar(mimetype.v[i + j - 1]) = word[j]

\* The last path segment is longer than ext and ends with it, letter case aside
NameHasExtension(name, ext) ==
    LET base == LastSegment(StripTrailingSlashes(name))
    IN  /\ Len(base) > Len(ext)
        /\ \A j \in 1..Len(ext) : LowerChar(base[Len(base) - Len(ext) + j]) = ext[j]

ExpectedKind(name, mimetype) ==
    IF MimeMentions(mimetype, Pdf) \/ NameHasExtension(name, DotPdf) THEN "pdf"
    ELSE IF \/ MimeMentions(mimetype, Html)
            \/ NameHasExtension(name, DotHtml)
            \/ NameHasExtension(name, DotHtm) THEN "html"
    ELSE "unknown"

C7_ClassifierTable ==
    cls.pc = "classified" /\ ~NameIsBlank(cls.filename) =>
        /\ cls.result \in {"pdf", "html", "unknown"}
        /\ cls.result = ExpectedKind(cls.filename, cls.mimetype)
        /\ ~MimeMentions(cls.mimetype, Pdf) /\ ~MimeMentions(cls.mimetype, Html)
                => /\ cls.result = "pdf" <=> NameHasExtension(cls.filename, DotPdf)
                   /\ cls.result = "unknown" <=>
                        /\ ~NameHasExtension(cls.filename, DotPdf)
                        /\ ~NameHasExtension(cls.filename, DotHtml)
                        /\ ~NameHasExtension(cls.filename, DotHtm)
        /\ MimeMentions(cls.mimetype, Html) /\ NameHasExtension(cls.filename, DotPdf)
                => cls.result = "pdf"

C7_Witness ==
    /\ cls.pc = "classified"
    /\ cls.filename = <<"a", ".", "P", "d", "f">>
    /\ cls.mimetype = Str(<<"T", "E", "X", "T", "/", "H", "T", "M", "L">>)
    /\ cls.result = "pdf"

\* C8: an upload whose file name is empty or only white space fails with the
\* usage error (BadRequest), never the unsupported-media error, whatever its
\* MIME type; no stream is opened and nothing is persisted.
C8_BlankNameIsUsageError ==
    req.pc # "idle" /\ NameIsBlank(req.file.filename) =>
        /\ req.pc = "failed"
        /\ req.error = "BadRequestException"
        /\ req.effects = <<>>
        /\ req.id = 0
        /\ store = req.storeBefore

C8_Witness ==
    /\ req.pc = "failed"
    /\ req.error = "BadRequestException"
    /\ req.file = FileOf(<<" ", " ">>, Str(ApplicationPdf))
    /\ req.effects = <<>>

----------------------------------------------------------------------------
(* Properties of the enrichment step *)

\* C9: no failure of the Enrichment Client leaves upload-create as an error:
\* an upload is never failed by the enrichment step, whose only error is the
\* one getOpenAiClient raises.
C9_EnrichmentNeverRaises ==
    ~(req.pc = "failed" /\ req.error = "Error")

\* C10: with no API credential, upload-create of a supported file with
\* non-empty text constructs no client and makes no enrichment call, is not
\* failed by the enrichment step, and creates a record with the uploaded file
\* name, title null and areaData null when the caller gave none, and metadata
\* whose rawText is the extracted text and whose aiExtraction is null.
C10_NoCredentialSkipsEnrichment ==
    IsFalsy(openAiApiKey) =>
        /\ openaiClient = Null
        /\ \A i \in DOMAIN req.effects :
                req.effects[i] \notin {"new OpenAI", "responses.parse"}
        /\ req.pc # "awaitingAi"
        /\ req.error # "Error"
        /\ req.pc \in {"merging", "done"} => req.aiEnrichment = Null
        /\ req.pc = "done" /\ req.rawText # <<>> =>
                /\ Persisted.fileName = Str(req.file.filename)
                /\ IsNullish(req.options.title) => Persisted.title = Null
                /\ IsFalsy(req.options.areaData) => Persisted.areaData = Null
                /\ Persisted.metadata.v.rawText = Str(req.rawText)
                /\ Persisted.metadata.v.aiExtraction = Null

C10_Witness ==
    /\ openAiApiKey = Undefined
    /\ req.pc = "done"
    /\ req.file = FileOf(BriefPdf, Undefined)
    /\ req.options = NoOptions
    /\ req.rawText # <<>>
    /\ Persisted.fileName = Str(BriefPdf)
    /\ Persisted.title = Null
    /\ Persisted.areaData = Null
    /\ Persisted.metadata.v.aiExtraction = Null

----------------------------------------------------------------------------
(* Properties of explicit create, update and delete *)

NoError == [name |-> "none", detail |-> ""]

\* The row an update names, before and after it
RowBefore == op.storeBefore[op.id]
RowAfter == store[op.id]

\* The text holds nothing but white space
IsBlankText(x) == x.t = "string" /\ \A i \in DOMAIN x.v : IsWhitespace(x.v[i])

\* The text with the white space at its two ends removed, by positions
Stripped(text) ==
    LET solid == {i \in DOMAIN text : ~IsWhitespace(text[i])}
        first == CHOOSE i \in solid : \A j \in solid : i <= j
        last == CHOOSE i \in solid : \A j \in solid : j <= i
    IN  IF solid = {} THEN <<>> ELSE [i \in 1..(last - first + 1) |-> text[first + i - 1]]

\* The request is refused as a usage or data error before any persistence call
RefusedBeforePersistence ==
    /\ op.pc = "failed"
    /\ op.error.name = "BadRequestException"
    /\ op.effects = <<>>
    /\ store = op.storeBefore

\* C11 as stated: updateDocument touches a field if and only if the request has
\* it: for every field, file name included, an explicit null is stored as null,
\* a value is stored as that value (a JSON text as the value it decodes to) and
\* an omitted field keeps its value.
C11_PresenceDecides ==
    /\ op.kind = "update" /\ op.pc = "done" =>
        \A f \in DocumentFields :
            /\ op.input[f] = Null => RowAfter[f] = Null
            /\ op.input[f].t \in {"string", "date"} /\ f \notin JsonFields
                    => RowAfter[f] = op.input[f]
            /\ op.input[f].t = "string" /\ f \in JsonFields /\ IsValidJson(op.input[f].v)
                    => RowAfter[f] = JSONparse(op.input[f].v)
            /\ op.input[f] = Undefined => RowAfter[f] = RowBefore[f]
    /\ op.kind = "update" /\ op.input.fileName = Null
            => op.error.name # "BadRequestException"

\* C11 as amended: a successful updateDocument stores null for every field
\* other than fileName that the request gives as null, stores a scalar value as
\* given, stores fileName with the white space at its ends removed, stores the
\* decoded value of a metadata or areaData text, and leaves as it was every
\* omitted field and every metadata or areaData given as a blank text; a
\* fileName given as null or blank is refused as a usage error; a failed update
\* leaves the store unchanged.
C11_FieldPresence ==
    /\ op.kind = "update" /\ op.pc = "done" =>
        /\ op.id \in DOMAIN op.storeBefore
        /\ DOMAIN store = DOMAIN op.storeBefore
        /\ \A i \in (DOMAIN store) \ {op.id} : store[i] = op.storeBefore[i]
        /\ \A f \in ScalarFields :
            /\ op.input[f] = Null => RowAfter[f] = Null
            /\ op.input[f].t \in {"string", "date"} => RowAfter[f] = op.input[f]
            /\ op.input[f] = Undefined => RowAfter[f] = RowBefore[f]
        /\ op.input.fileName # Undefined =>
            /\ op.input.fileName.t = "string"
            /\ RowAfter.fileName = Str(Stripped(op.input.fileName.v))
        /\ op.input.fileName = Undefined => RowAfter.fileName = RowBefore.fileName
        /\ \A f \in JsonFields :
            /\ op.input[f] = Null => RowAfter[f] = Null
            /\ op.input[f].t = "string" /\ ~IsBlankText(op.input[f])
                    => IsValidJson(op.input[f].v) /\ RowAfter[f] = JSONparse(op.input[f].v)
            /\ op.input[f].t = "string" /\ IsBlankText(op.input[f])
                    => RowAfter[f] = RowBefore[f]
            /\ op.input[f] = Undefined => RowAfter[f] = RowBefore[f]
    /\ op.kind = "update" /\ (op.input.fileName = Null \/ IsBlankText(op.input.fileName))
            => RefusedBeforePersistence
    /\ op.kind = "update" /\ op.pc = "failed" => store = op.storeBefore

C11_Witness ==
    /\ op.kind = "update"
    /\ op.pc = "done"
    /\ op.input.title = CallerValue.title
    /\ op.input.date = Null
    /\ op.input.court = Undefined
    /\ RowBefore.date = CallerValue.date
    /\ RowAfter.date = Null
    /\ RowAfter.court = CallerValue.court
    /\ RowAfter.metadata = Obj([k |-> Num(1)])

\* C12: an update request that names no field is refused with
\* BadRequestException before any persistence call and leaves the store
\* unchanged, whether or not the id has a row.
C12_EmptyUpdateRefused ==
    op.kind = "update" /\ (\A f \in DocumentFields : op.input[f] = Undefined)
        => RefusedBeforePersistence

C12_Witness ==
    /\ op.kind = "update"
    /\ \A f \in DocumentFields : op.input[f] = Undefined
    /\ op.id \notin DOMAIN op.storeBefore
    /\ op.pc = "failed"
    /\ op.error = BadRequestException("At least one field must be provided to update.")
    /\ op.effects = <<>>

\* C13: an update or delete that reaches the persistence call for an id with no
\* row fails and leaves the store unchanged; the P2025 signal becomes
\* NotFoundException, and any other error of the persistence call is the
\* error the caller gets.
C13_NotFoundAndRethrow ==
    op.kind \in {"update", "delete"} /\ op.effects # <<>> =>
        /\ op.id \notin DOMAIN op.storeBefore =>
            /\ op.pc = "failed"
            /\ op.thrown \in {RecordNotFound} \cup PersistenceErrors
        /\ op.thrown = RecordNotFound =>
            /\ op.pc = "failed"
            /\ op.error.name = "NotFoundException"
            /\ op.id \notin DOMAIN op.storeBefore
        /\ op.thrown \in PersistenceErrors =>
            /\ op.pc = "failed"
            /\ op.error = op.thrown
        /\ op.pc = "failed" => store = op.storeBefore /\ op.thrown # NoError
        /\ op.pc = "done" => op.thrown = NoError /\ op.error = NoError

C13_Witness ==
    /\ op.kind = "delete"
    /\ op.pc = "failed"
    /\ op.thrown = [name |-> "PrismaClientKnownRequestError", detail |-> "P2002"]
    /\ op.error = op.thrown
    /\ op.id \in DOMAIN store

\* fileName is missing, empty or only white space
CreateNameMissing == op.input.fileName.t \in {"undefined", "null"} \/ IsBlankText(op.input.fileName)

\* The text is not blank and is not valid JSON
InvalidJsonText(x) == x.t = "string" /\ ~IsBlankText(x) /\ ~IsValidJson(x.v)

\* The value a field of the created row has for what the request gave
CreatedValue(f) ==
    IF f \in JsonFields
    THEN IF op.input[f].t = "string" /\ ~IsBlankText(op.input[f])
         THEN JSONparse(op.input[f].v) ELSE Null
    ELSE IF IsNullish(op.input[f]) THEN Null ELSE op.input[f]

\* C14: explicit create with a missing or blank fileName fails with a usage
\* error, and with a metadata or areaData text that is not blank and not valid
\* JSON with a data error, in both cases before any persistence call; every
\* other request whose persistence call does not fail creates a row with the
\* given fileName and, for every other field, the supplied value or null.
C14_ExplicitCreate ==
    op.kind = "create" =>
        /\ CreateNameMissing => RefusedBeforePersistence
        /\ InvalidJsonText(op.input.metadata) \/ InvalidJsonText(op.input.areaData)
                => RefusedBeforePersistence
        /\ /\ ~CreateNameMissing
           /\ ~InvalidJsonText(op.input.metadata)
           /\ ~InvalidJsonText(op.input.areaData)
           /\ op.thrown = NoError
           => /\ op.pc = "done"
              /\ \A f \in DocumentFields : store[op.id][f] = CreatedValue(f)

\* C17: every row of the store has a fileName that is a string with a
\* character that is not white space, after any create, upload, update and
\* delete, successful or failed.
C17_FileNameNeverBlank ==
    \A i \in DOMAIN store :
        /\ store[i].fileName.t = "string"
        /\ \E j \in DOMAIN store[i].fileName.v : ~IsWhitespace(store[i].fileName.v[j])

C17_Witness ==
    /\ op.kind = "update"
    /\ op.pc = "done"
    /\ op.input.fileName = Str(PaddedName)
    /\ op.id = 2
    /\ store[2].fileName = Str(<<"m", ".", "p", "d", "f">>)
    /\ store[1].fileName = Str(NPdf)

----------------------------------------------------------------------------
(* Properties of the metadata codec *)

\* C15: decoding never raises on an absent or blank input: for metadata and
\* for areaData, undefined, null, the empty string and a white-space-only
\* string give "no value"; only a text that is not blank and not valid JSON
\* raises, and the error names the field.
C15_BlankIsNoValue ==
    op.kind = "decode" /\ op.pc = "decoded" =>
        /\ IsNullish(op.input.value) \/ IsBlankText(op.input.value)
                => op.result = Returned(Undefined)
        /\ op.result.throws
                => /\ InvalidJsonText(op.input.value)
                   /\ op.result.label = op.input.label
        /\ InvalidJsonText(op.input.value) => op.result.throws

\* C16: a JSON object serialized with stringifyMetadata and decoded with
\* parseMetadata / parseAreaData comes back as an equal object.
C16_RoundTrip ==
    op.kind = "roundTrip" /\ op.pc = "decoded" =>
        /\ op.text.t = "string"
        /\ ~op.result.throws
        /\ op.result.value = op.input.value

C16_Witness ==
    /\ op.kind = "roundTrip"
    /\ op.pc = "decoded"
    /\ op.input.label = "areaData"
    /\ op.input.value = Obj([k |-> Str(<<"\\", "\n", " ", "\t">>), c |-> Str(<<>>)])
    /\ Len(op.text.v) > 10
    /\ op.result.value.v.k = Str(<<"\\", "\n", " ", "\t">>)

----------------------------------------------------------------------------
(* Properties of the metadata normalizer *)

\* The ids of the persistence calls of the current run
WrittenIds == {norm.writes[i] : i \in DOMAIN norm.writes}

\* The reports of the current run
Reports == {norm.reports[i] : i \in DOMAIN norm.reports}

\* C18: in a single or a batch run, a persistence write is issued for a
\* processed record exactly when the run is live and a change was detected
\* for the record; a dry run issues no write and leaves the store as it was
\* before the run; a record with no detected change is never written, and
\* no record changes without a write.
C18_WriteIffLiveAndChanged ==
    norm.pc \in {"running", "done"} =>
        /\ \A r \in Reports :
                r.documentId \in WrittenIds <=> (~norm.dryRun /\ r.hasChanges)
        /\ \A id \in WrittenIds : \E r \in Reports : r.documentId = id
        /\ norm.dryRun => norm.writes = <<>> /\ store = norm.storeBefore
        /\ \A id \in DOMAIN store :
                store[id] # norm.storeBefore[id] => id \in WrittenIds

\* A dry batch run that detected a change in one record and none in another,
\* finished
C18_Witness ==
    /\ norm.pc = "done"
    /\ norm.mode = "parseAllDocumentsMetadata"
    /\ norm.dryRun
    /\ \E r \in Reports : r.hasChanges
    /\ \E r \in Reports : ~r.hasChanges
    /\ norm.writes = <<>>
    /\ store = norm.storeBefore

\* The row of a report before the run
BeforeRun(r) == norm.storeBefore[r.documentId]

\* A stored value that is an array of {key, value} pairs
StoredAsPairs(x) ==
    /\ x.t = "array"
    /\ \A i \in DOMAIN x.v :
            /\ x.v[i].t = "object"
            /\ DOMAIN x.v[i].v = {"key", "value"}
            /\ x.v[i].v.key.t = "string"
            /\ x.v[i].v.value.t = "string"

\* The value v is what the text of a pair reads as: the number, boolean or
\* null the text writes, otherwise the text
ReadsAs(text, v) ==
    \/ v = Bool(TRUE) /\ text = <<"t", "r", "u", "e">>
    \/ v = Bool(FALSE) /\ text = <<"f", "a", "l", "s", "e">>
    \/ v = Null /\ text = <<"n", "u", "l", "l">>
    \/ v.t = "number" /\ NumberText(v.v) = text
    \/ /\ v = Str(text)
       /\ text \notin {<<"t", "r", "u", "e">>, <<"f", "a", "l", "s", "e">>,
                        <<"n", "u", "l", "l">>}
       /\ \E i \in DOMAIN text : ~IsDigit(text[i])

\* The object maps every key of the pairs to the value of the last pair of
\* that key
IsObjectOfPairs(object, pairs) ==
    /\ object.t = "object"
    /\ DOMAIN object.v = {NameOf(pairs.v[i].v.key.v) : i \in DOMAIN pairs.v}
    /\ \A i \in DOMAIN pairs.v :
            (\A j \in DOMAIN pairs.v : j > i => pairs.v[j].v.key # pairs.v[i].v.key)
            => ReadsAs(pairs.v[i].v.value.v, object.v[NameOf(pairs.v[i].v.key.v)])

\* The report's record was persisted by the current run
PersistedByRun(r) == ~norm.dryRun /\ r.hasChanges /\ r.error = "none"

Converted == DOMAIN norm.converted

\* C20: once a live run has converted a record, a later run on the record,
\* single or batch, live or dry, reports hasChanges = false for it and issues
\* no persistence write for it, and the record's areaData and metadata stay
\* what the converting run made them.
C20_Idempotent ==
    \A id \in Converted :
        /\ \A f \in JsonFields : store[id][f] = norm.converted[id].row[f]
        /\ norm.converted[id].run < norm.runs =>
                /\ id \notin WrittenIds
                /\ \A r \in Reports : r.documentId = id => ~r.hasChanges

\* A live batch run has processed, as its second record, a record that the
\* run before it converted
C20_Witness ==
    /\ norm.pc = "done"
    /\ norm.mode = "parseAllDocumentsMetadata"
    /\ ~norm.dryRun
    /\ \E r \in Reports :
            /\ r.documentId \in Converted
            /\ norm.converted[r.documentId].run < norm.runs
            /\ ~r.hasChanges
            /\ store[r.documentId] \notin LegacyRows
            /\ norm.converted[r.documentId].row = store[r.documentId]

\* The ids of the reports of the current run, in order
RECURSIVE ReportedIds(_)
ReportedIds(reports) ==
    IF reports = <<>> THEN <<>>
    ELSE <<Head(reports).documentId>> \o ReportedIds(Tail(reports))

\* C21: in a live batch, a failure of the persistence call of one record is
\* recorded as the error of the record's report and the record keeps its
\* stored row; the records after it are still processed, in order, and
\* persisted when changed; the records converted before it stay converted;
\* the run ends with a summary that counts the failures and never fails as a
\* whole.
C21_FailureDoesNotAbort ==
    /\ norm.pc \in {"idle", "running", "done"}
    /\ norm.mode = "parseAllDocumentsMetadata" /\ ~norm.dryRun =>
        /\ ReportedIds(norm.reports) \o norm.queue = norm.selected
        /\ \A r \in Reports :
            /\ r.error # "none" =>
                    /\ r.hasChanges
                    /\ r.documentId \in WrittenIds
                    /\ store[r.documentId] = BeforeRun(r)
            /\ r.error = "none" /\ r.hasChanges =>
                    /\ store[r.documentId].areaData = r.changes.areaData.after
                    /\ store[r.documentId].metadata = r.changes.metadata.after
                    /\ r.documentId \in Converted
        /\ norm.pc = "done" =>
            /\ norm.summary.processedCount = Len(norm.selected)
            /\ norm.summary.failedCount =
                    Cardinality({i \in DOMAIN norm.reports : norm.reports[i].error # "none"})
            /\ norm.summary.results = norm.reports

\* A live batch over two records to convert: the persistence call of the
\* first failed, the second was converted, and the summary counts one failure
C21_Witness ==
    /\ norm.pc = "done"
    /\ norm.mode = "parseAllDocumentsMetadata"
    /\ ~norm.dryRun
    /\ Len(norm.reports) = 2
    /\ norm.reports[1].error # "none"
    /\ norm.reports[2].error = "none"
    /\ norm.reports[2].hasChanges
    /\ store[1] = norm.storeBefore[1]
    /\ store[2] # norm.storeBefore[2]
    /\ norm.summary.failedCount = 1
    /\ norm.summary.processedCount = 2

----------------------------------------------------------------------------
(* Properties of the normalizer beside another writer *)

\* The step is a successful write of the normalizer for the record it read
NormalizerWrites ==
    /\ norm.pc = "read"
    /\ norm'.pc = "running"
    /\ Len(norm'.writes) > Len(norm.writes)
    /\ norm'.reports[Len(norm'.reports)].error = "none"

\* C22: the read and the write of a record are two steps, and an update can
\* commit between them; the write then stores, for every field that was read
\* as an array of pairs, the object computed from the row that was read,
\* whatever the store holds for the field at the time of the write.
C22_WriteFromStaleRead ==
    [][NormalizerWrites =>
        \A f \in JsonFields :
            StoredAsPairs(norm.read[f]) =>
                IsObjectOfPairs(store'[Head(norm.queue)][f], norm.read[f])]_vars

\* An update of areaData or metadata was committed after the normalizer read
\* the record, and the normalizer's write has replaced the updated value by
\* the object computed from the value it had read
C22_Witness ==
    /\ norm.pc = "running"
    /\ op.kind = "update"
    /\ op.pc = "done"
    /\ norm.writes # <<>>
    /\ norm.writes[Len(norm.writes)] = op.id
    /\ \E f \in JsonFields :
            /\ StoredAsPairs(norm.read[f])
            /\ op.input[f].t = "string"
            /\ norm.overwritten[f] = JSONparse(op.input[f].v)
            /\ norm.overwritten[f] # norm.read[f]
            /\ store[op.id][f] # norm.overwritten[f]
            /\ IsObjectOfPairs(store[op.id][f], norm.read[f])

----------------------------------------------------------------------------
(* Properties of the life of a document *)

\* The persistence call of the operation was not made to fail from outside
NoOutage == op.thrown \notin PersistenceErrors

\* The ids createDocument has returned and deleteDocument has not removed
Living == (DOMAIN op.created) \ op.deleted

\* C23: createDocument returns a new id whose row is stored; while the
\* record is not deleted, a lookup of the id returns the record createDocument
\* returned (same id, same fileName); deleteDocument of the id succeeds,
\* returns that record and removes the row; from then on the id has no row, a
\* lookup of it gives null and another deleteDocument of it fails with
\* NotFoundException.  (An operation whose persistence call is made to fail
\* from outside is left aside.)
C23_CreateThenDelete ==
    /\ \A i \in op.deleted : i \notin DOMAIN store /\ i \in DOMAIN op.created
    /\ \A i \in Living : i \in DOMAIN store
    /\ op.pc \in {"done", "failed"} /\ NoOutage =>
        /\ op.kind = "create" /\ op.pc = "done" =>
            /\ op.id \notin DOMAIN op.storeBefore
            /\ op.id \in Living
            /\ op.result.value.id = op.id
            /\ op.result.value = op.created[op.id]
        /\ op.kind = "get" /\ op.id \in Living =>
            /\ op.pc = "done"
            /\ op.result.value.id = op.id
            /\ op.result.value.fileName = op.created[op.id].fileName
            /\ store = op.storeBefore
        /\ op.kind = "get" /\ op.id \in op.deleted =>
            /\ op.pc = "done"
            /\ op.result.value = Null
        /\ op.kind = "delete" /\ op.id \in DOMAIN op.storeBefore =>
            /\ op.pc = "done"
            /\ op.result.value.id = op.id
            /\ op.result.value = op.created[op.id]
            /\ op.id \in op.deleted
            /\ DOMAIN store = (DOMAIN op.storeBefore) \ {op.id}
        /\ op.kind = "delete" /\ op.id \notin DOMAIN op.storeBefore =>
            /\ op.pc = "failed"
            /\ op.error = NotFoundException
            /\ store = op.storeBefore

\* A document was created with a padded file name, looked up, deleted and
\* looked up again, and the second deleteDocument of its id has failed
C23_Witness ==
    /\ op.kind = "delete"
    /\ op.pc = "failed"
    /\ op.error = NotFoundException
    /\ op.id \in op.deleted
    /\ op.id \in op.found
    /\ op.id \in op.missed
    /\ op.created[op.id].fileName = Str(<<"m", ".", "p", "d", "f">>)
    /\ op.count = 5

----------------------------------------------------------------------------
(* Properties of the parse-metadata command line *)

\* C24: a run that was given --document-id never runs the batch over all
\* documents, whatever the value of the option, and modifies no document but
\* the one the option names.
C24_OnlyNamedDocument ==
    norm.args.documentId.t = "string" =>
        /\ norm.mode # "parseAllDocumentsMetadata"
        /\ \A id \in DOMAIN store :
                store[id] # norm.storeBefore[id] =>
                    /\ ~parseInt(norm.args.documentId.v).nan
                    /\ parseInt(norm.args.documentId.v).value = id

----------------------------------------------------------------------------
(* Properties of the seed script *)

\* The answer is the word yes
TypedYes(answer) == ToLowerCase(Trim(answer)) = <<"y", "e", "s">>

\* The run has made a database write
SeedWrote == seed.calls # <<>> \/ store # seed.storeBefore

\* C25: without --force and without --dry-run, the seed script writes to the
\* database only in an interactive terminal and only after the answer yes;
\* after any other answer, the empty one included, it ends with no database
\* change; in a shell that is not interactive it ends with code 1 and no
\* database write.
C25_WritesOnlyOnYes ==
    ~seed.force /\ ~seed.dryRun =>
        /\ SeedWrote => seed.isTTY /\ seed.asked /\ TypedYes(seed.answer)
        /\ seed.asked /\ ~TypedYes(seed.answer) => seed.pc = "exited" /\ ~SeedWrote
        /\ ~seed.isTTY /\ seed.pc \in {"done", "exited"} =>
                seed.pc = "exited" /\ seed.exitCode = 1 /\ ~SeedWrote

----------------------------------------------------------------------------
(* Properties of the extraction prompt *)

\* The excerpt that the built prompt embeds
Excerpt == op.result.lines[3]

\* C26: a text of at most 6000 characters is embedded whole, with nothing
\* added; a longer text is embedded as its first 6000 characters followed by
\* "..."; the excerpt is never longer than 6003 characters, and it is the
\* text cut and marked with "..." exactly when the text is longer than 6000
\* characters.
C26_BoundedExcerpt ==
    op.kind = "buildExtractionPrompt" /\ op.pc = "built" =>
        /\ Len(op.input) <= 6000 => Excerpt = op.input
        /\ Len(op.input) > 6000 =>
                /\ Len(Excerpt) = 6003
                /\ \A i \in 1..6000 : Excerpt[i] = op.input[i]
                /\ \A i \in 6001..6003 : Excerpt[i] = "."
        /\ Len(Excerpt) <= 6003
        /\ Len(Excerpt) <= Len(op.input) + 2
        /\ Len(op.input) > 6000 <=> Len(Excerpt) = 6003
        /\ op.result.lines[2] = "\"\"\"" /\ op.result.lines[4] = "\"\"\""

\* The prompt was built for a text of 6001 letters: the excerpt is the first
\* 6000 and "..."
C26_Witness ==
    /\ op.kind = "buildExtractionPrompt"
    /\ op.pc = "built"
    /\ Len(op.input) = 6001
    /\ op.input[6001] = "a"
    /\ Len(Excerpt) = 6003
    /\ Excerpt[6000] = "a"
    /\ Excerpt[6001] = "."
    /\ Excerpt[6003] = "."

\* ---------------------------------------------------------------------------
\* The OpenAI client under concurrent uploads
\* ---------------------------------------------------------------------------

\* Number of uploads whose enrichment is in flight together
MaxAttempts == 3

\* new OpenAI({ apiKey }), with the slip that builds one for every call
getOpenAiClient_AlwaysNew(current, apiKey) ==
    [client |-> Obj([apiKey |-> apiKey]), constructed |-> TRUE]

\* getOpenAiClient: if (!this.openaiClient) this.openaiClient = new OpenAI(...);
\* return this.openaiClient.  constructed tells whether new OpenAI() ran
getOpenAiClient(current, apiKey) ==
    IF IsFalsy(current)
    THEN [client |-> Obj([apiKey |-> apiKey]), constructed |-> TRUE]
    ELSE [client |-> current, constructed |-> FALSE]

\* An enrichMetadataFromText call that has not run yet
NewAttempt == [pc |-> "start", client |-> Null, constructed |-> FALSE]

\* The uploads have all reached enrichMetadataFromText; no client exists yet
InitClient ==
    /\ store = <<>>
    /\ nextId = 1
    /\ openaiClient = Null
    /\ openAiApiKey \in ApiKeys
    /\ req = IdleRequest
    /\ cls = NotClassifying
    /\ op = IdleOperation
    /\ norm = IdleNormalizer
    /\ seed = NoSeed
    /\ prismaService = NoPrismaService
    /\ enrich = [attempts |-> [i \in 1..MaxAttempts |-> NewAttempt], log |-> <<>>]

\* enrichMetadataFromText of one upload without a credential: return null
EnrichmentSkipped(i) ==
    /\ enrich.attempts[i].pc = "start"
    /\ credentialMissing(openAiApiKey)
    /\ enrich' = [enrich EXCEPT !.attempts[i].pc = "done",
                                !.log = Append(@, "skipped")]
    /\ UNCHANGED <<store, nextId, openaiClient, openAiApiKey, req, cls, op, norm, seed,
                   prismaService>>

\* getOpenAiClient of one upload throws: new OpenAI() failed, no client is kept
EnrichmentClientFails(i) ==
    /\ enrich.attempts[i].pc = "start"
    /\ ~credentialMissing(openAiApiKey)
    /\ IsFalsy(openaiClient)
    /\ enrich' = [enrich EXCEPT !.attempts[i].pc = "failed",
                                !.log = Append(@, "failed")]
    /\ UNCHANGED <<store, nextId, openaiClient, openAiApiKey, req, cls, op, norm, seed,
                   prismaService>>

\* enrichMetadataFromText of one upload up to its await: getOpenAiClient runs to
\* its end without yielding, then client.responses.parse is awaited
EnrichmentCall(i) ==
    /\ enrich.attempts[i].pc = "start"
    /\ ~credentialMissing(openAiApiKey)
    /\ LET got == getOpenAiClient(openaiClient, openAiApiKey)
       IN /\ openaiClient' = got.client
          /\ enrich' = [enrich EXCEPT
                 !.attempts[i] = [pc |-> "awaitingAi", client |-> got.client,
                                  constructed |-> got.constructed],
                 !.log = Append(@, IF got.constructed THEN "constructed"
                                                      ELSE "reused")]
    /\ UNCHANGED <<store, nextId, openAiApiKey, req, cls, op, norm, seed,
                   prismaService>>

\* The awaited call of one upload settles
EnrichmentResponse(i) ==
    /\ enrich.attempts[i].pc = "awaitingAi"
    /\ enrich' = [enrich EXCEPT !.attempts[i].pc = "done"]
    /\ UNCHANGED <<store, nextId, openaiClient, openAiApiKey, req, cls, op, norm, seed,
                   prismaService>>

NextClient ==
    \/ \E i \in 1..MaxAttempts : EnrichmentSkipped(i)
    \/ \E i \in 1..MaxAttempts : EnrichmentClientFails(i)
    \/ \E i \in 1..MaxAttempts : EnrichmentCall(i)
    \/ \E i \in 1..MaxAttempts : EnrichmentResponse(i)

SpecClient == InitClient /\ [][NextClient]_vars

\* Positions of the log where getOpenAiClient did the given thing
LogPositions(what) == {k \in 1..Len(enrich.log) : enrich.log[k] = what}

\* The attempts that ran new OpenAI() to its end
Constructors == {i \in 1..MaxAttempts : enrich.attempts[i].constructed}

\* The attempts that went on to call the model
Callers == {i \in 1..MaxAttempts : enrich.attempts[i].pc \in {"awaitingAi", "done"}
                                   /\ ~credentialMissing(openAiApiKey)}

OneClient ==
    /\ Cardinality(Constructors) <= 1
    /\ Cardinality(LogPositions("constructed")) <= 1
    /\ (openaiClient # Null) <=> (Constructors # {})
    /\ \A i \in Callers : /\ openaiClient # Null
                          /\ enrich.attempts[i].client = openaiClient
    /\ credentialMissing(openAiApiKey) =>
           /\ openaiClient = Null
           /\ \A k \in 1..Len(enrich.log) : enrich.log[k] = "skipped"
    /\ \A k \in LogPositions("constructed") :
           /\ \A j \in 1..(k - 1) : enrich.log[j] = "failed"
           /\ \A j \in (k + 1)..Len(enrich.log) : enrich.log[j] = "reused"

----------------------------------------------------------------------------
(* Properties of the enrichment step of handleUpload *)

\* The calls the upload in flight has made on the Enrichment Client
EnrichmentCalls ==
    {i \in DOMAIN req.effects : req.effects[i] \in {"new OpenAI", "responses.parse"}}

\* The times the upload in flight has asked the model
ModelCalls == {i \in DOMAIN req.effects : req.effects[i] = "responses.parse"}

\* The caller's JSON texts of the upload in flight decode
CallerJsonDecodes ==
    /\ ~parseMetadata(req.options.metadata).throws
    /\ ~parseAreaData(req.options.areaData).throws

\* An upload whose extracted text is empty has skipped enrichment; once created,
\* its record has the caller's scalars or null and no text or AI provenance
EmptyTextSkipsEnrichment ==
    /\ Cardinality(ModelCalls) <= 1
    /\ (EnrichmentCalls # {} \/ req.pc \in {"enriching", "awaitingAi"})
            => req.rawText # <<>>
    /\ req.pc \in {"merging", "done"} /\ req.rawText = <<>> =>
            /\ EnrichmentCalls = {}
            /\ req.aiEnrichment = Null
    /\ req.pc = "done" /\ req.rawText = <<>> =>
            /\ \A f \in ScalarFields :
                    Persisted[f] = IF IsNullish(req.options[f]) THEN Null
                                   ELSE req.options[f]
            /\ Persisted.metadata.v.rawText = Null
            /\ Persisted.metadata.v.aiExtraction = Null

\* With empty text the upload goes on to the create call, which only the
\* caller's own JSON or the persistence layer can fail
EmptyTextStillCreates ==
    req.pc = "merging" /\ req.rawText = <<>> /\ req' # req =>
        IF CallerJsonDecodes
        THEN \/ req'.pc = "done" /\ req'.id \in DOMAIN store' /\ req'.id \notin DOMAIN store
             \/ req'.pc = "failed" /\ req'.error = "PrismaClientError"
        ELSE req'.pc = "failed" /\ req'.error = "BadRequestException"

\* C28: in upload-create the Enrichment Client is invoked only when the
\* extracted text is non-empty, and at most once per upload; when extraction
\* yields text that is empty after trimming the enrichment step is skipped, the
\* record is still created, its scalar fields are the caller's or null, and its
\* metadata has rawText null and aiExtraction null
C28_EmptyTextSkipsEnrichment ==
    /\ []EmptyTextSkipsEnrichment
    /\ [][EmptyTextStillCreates]_vars

\* A white-space-only PDF uploaded with a credential configured and the caller's
\* scalars: created without any call on the client
C28_Witness ==
    /\ req.pc = "done"
    /\ req.rawText = <<>>
    /\ ~credentialMissing(openAiApiKey)
    /\ EnrichmentCalls = {}
    /\ req.options.title = CallerValue.title
    /\ Persisted.title = CallerValue.title
    /\ Persisted.court = Null
    /\ Persisted.metadata.v.rawText = Null
    /\ Persisted.metadata.v.aiExtraction = Null

----------------------------------------------------------------------------
(* Properties of the persistence call of handleUpload *)

\* The persistence create calls of the upload in flight
CreateCalls == {i \in DOMAIN req.effects : req.effects[i] = "prisma.document.create"}

\* A caller text that is given and is not JSON
NotJson(text) == text.t = "string" /\ text.v # <<>> /\ ~IsValidJson(text.v)

\* Classification, extraction and enrichment of the upload in flight have all
\* returned, and the caller's texts are JSON where given
StagesCompleted ==
    /\ ~NameIsBlank(req.file.filename)
    /\ ExpectedKind(req.file.filename, req.file.mimetype) # "unknown"
    /\ req.fileKind = ExpectedKind(req.file.filename, req.file.mimetype)
    /\ \E i \in DOMAIN req.effects : req.effects[i] = "readStream"
    /\ req.rawText # <<>> /\ ~credentialMissing(openAiApiKey)
            => /\ ModelCalls # {}
               /\ openaiClient # Null
    /\ ~(NotJson(req.options.metadata) /\ Trim(req.options.metadata.v) # <<>>)
    /\ ~NotJson(req.options.areaData)

\* The store as the upload in flight found it, with the record it created
StoreWithCreated ==
    /\ req.id \notin DOMAIN req.storeBefore
    /\ DOMAIN store = (DOMAIN req.storeBefore) \cup {req.id}
    /\ \A i \in DOMAIN req.storeBefore : store[i] = req.storeBefore[i]

\* C29: upload-create makes at most one persistence create call, as its last
\* step and only after classification, extraction, enrichment and the decoding
\* of the caller's metadata and areaData have all returned; an upload that
\* failed at any of these stages has made no such call, and a failed upload
\* leaves the store as it found it, with no new or partial record
C29_CreateIsLastAndOnlyAfterStages ==
    /\ Cardinality(CreateCalls) <= 1
    /\ \A i \in CreateCalls : i = Len(req.effects)
    /\ CreateCalls # {} => StagesCompleted
    /\ req.pc = "failed" /\ req.error # "PrismaClientError" => CreateCalls = {}
    /\ req.pc \notin {"idle", "done"} => store = req.storeBefore
    /\ req.pc = "failed" => req.id = 0
    /\ req.pc = "done" => CreateCalls # {} /\ StoreWithCreated

\* An upload that was extracted and enriched and then failed on the caller's
\* areaData text: no create call, the store as before
C29_Witness ==
    /\ req.pc = "failed"
    /\ req.error = "BadRequestException"
    /\ ModelCalls # {}
    /\ NotJson(req.options.areaData)
    /\ CreateCalls = {}
    /\ store = <<ExistingDocument>>

----------------------------------------------------------------------------
(* PrismaService: connecting at start-up *)

\* const maxRetries = 3
maxRetries == 3

\* What $connect, $queryRaw and $disconnect can throw: an Error, or a value
\* that is not an Error
DatabaseErrors ==
    {[isError |-> TRUE, message |-> "P1001"], [isError |-> FALSE, message |-> "refused"]}

\* error instanceof Error ? error.message : String(error)
errorMessage(error) == error.message

\* The catch block of onModuleInit, with the slip that never gives up
afterFailure_AlwaysRetries(p, step, error) ==
    [p EXCEPT !.log = Append(@, [step |-> step, message |-> errorMessage(error)]),
              !.pc = "waiting"]

\* The catch block of onModuleInit: the last attempt throws, the others wait
afterFailure(p, step, error) ==
    LET logged == [p EXCEPT !.log = Append(@, [step |-> step,
                                                message |-> errorMessage(error)])]
    IN  IF p.attempt = maxRetries
        THEN [logged EXCEPT !.pc = "thrown", !.error = errorMessage(error)]
        ELSE [logged EXCEPT !.pc = "waiting"]

InitPrisma ==
    /\ store = <<>>
    /\ nextId = 1
    /\ openaiClient = Null
    /\ openAiApiKey = Undefined
    /\ req = IdleRequest
    /\ cls = NotClassifying
    /\ op = IdleOperation
    /\ norm = IdleNormalizer
    /\ seed = NoSeed
    /\ prismaService = NoPrismaService
    /\ enrich = NoEnrichment

\* onModuleInit is called: the loop starts with attempt = 1
OnModuleInit ==
    /\ prismaService.pc = "off"
    /\ prismaService' = [prismaService EXCEPT !.pc = "connecting", !.attempt = 1]
    /\ UNCHANGED <<store, nextId, openaiClient, openAiApiKey, req, cls, op, norm, seed,
                   enrich>>

\* await this.$connect() settles
Connect ==
    /\ prismaService.pc = "connecting"
    /\ LET called == [prismaService EXCEPT !.connects = @ + 1]
       IN  \/ prismaService' = [called EXCEPT !.pc = "verifying"]
           \/ \E error \in DatabaseErrors :
                prismaService' = afterFailure(called, "$connect", error)
    /\ UNCHANGED <<store, nextId, openaiClient, openAiApiKey, req, cls, op, norm, seed,
                   enrich>>

\* await this.$queryRaw`SELECT 1` settles; on success isConnected = true; return
Verify ==
    /\ prismaService.pc = "verifying"
    /\ LET called == [prismaService EXCEPT !.queries = @ + 1]
       IN  \/ prismaService' =
                [called EXCEPT !.pc = "returned", !.isConnected = TRUE,
                               !.log = Append(@, [step |-> "ok", message |-> ""])]
           \/ \E error \in DatabaseErrors :
                prismaService' = afterFailure(called, "$queryRaw", error)
    /\ UNCHANGED <<store, nextId, openaiClient, openAiApiKey, req, cls, op, norm, seed,
                   enrich>>

\* The delay is over: attempt++, and the loop test attempt <= maxRetries
RetryDelay ==
    /\ prismaService.pc = "waiting"
    /\ prismaService' =
            [prismaService EXCEPT !.attempt = @ + 1,
                                  !.pc = IF prismaService.attempt + 1 <= maxRetries
                                         THEN "connecting" ELSE "returned"]
    /\ UNCHANGED <<store, nextId, openaiClient, openAiApiKey, req, cls, op, norm, seed,
                   enrich>>

\* onModuleDestroy at shutdown: $disconnect only when connected, its error
\* swallowed
OnModuleDestroy ==
    /\ prismaService.pc \in {"returned", "thrown"}
    /\ IF prismaService.isConnected
       THEN LET called == [prismaService EXCEPT !.disconnects = @ + 1,
                                                !.pc = "destroyed"]
            IN  \/ prismaService' = [called EXCEPT !.isConnected = FALSE]
                \/ prismaService' = called
       ELSE prismaService' = [prismaService EXCEPT !.pc = "destroyed"]
    /\ UNCHANGED <<store, nextId, openaiClient, openAiApiKey, req, cls, op, norm, seed,
                   enrich>>

NextPrisma ==
    \/ OnModuleInit
    \/ Connect
    \/ Verify
    \/ RetryDelay
    \/ OnModuleDestroy

SpecPrisma == InitPrisma /\ [][NextPrisma]_vars

\* Every await of onModuleInit settles
SpecPrismaLive ==
    SpecPrisma /\ WF_vars(OnModuleInit \/ Connect \/ Verify \/ RetryDelay)

\* The attempts of the log that failed, and the ones that fully succeeded
FailedAttempts == {k \in DOMAIN prismaService.log : prismaService.log[k].step # "ok"}
SucceededAttempts == {k \in DOMAIN prismaService.log : prismaService.log[k].step = "ok"}

\* onModuleInit is over, by return or by throw
InitSettled == prismaService.pc \in {"returned", "thrown", "destroyed"}

\* At most three attempts; a return follows the first attempt that fully
\* succeeded, a throw three failures; connected only after a full success
AtMostThreeAttempts ==
    LET p == prismaService
    IN  /\ p.attempt <= 3
        /\ p.connects <= 3
        /\ p.queries <= p.connects
        /\ Len(p.log) <= 3
        /\ p.pc = "returned" =>
                /\ p.isConnected
                /\ SucceededAttempts = {Len(p.log)}
                /\ Len(p.log) = p.attempt
                /\ p.connects = p.attempt
                /\ p.error = "none"
        /\ p.pc = "thrown" =>
                /\ ~p.isConnected
                /\ FailedAttempts = 1..3
                /\ p.connects = 3
                /\ p.error = p.log[3].message
        /\ p.isConnected => SucceededAttempts # {}
        /\ SucceededAttempts # {} => p.pc \in {"returned", "destroyed"}

\* C30: onModuleInit ends after at most 3 connection attempts: it returns at
\* the first attempt whose connect and verification query both succeed, with
\* isConnected true; when all 3 attempts fail it throws and isConnected stays
\* false; there is no fourth attempt, and isConnected is true only after an
\* attempt that fully succeeded
C30_AtMostThreeAttempts ==
    /\ []AtMostThreeAttempts
    /\ <>InitSettled

\* Connected at the third attempt, after a refused connect and a failed query
C30_Witness ==
    /\ prismaService.pc = "returned"
    /\ prismaService.isConnected
    /\ prismaService.attempt = 3
    /\ prismaService.log[1].step = "$connect"
    /\ prismaService.log[2].step = "$queryRaw"
    /\ prismaService.log[3].step = "ok"

====
